---- MODULE Spec2Model ----
(***************************************************************************)
(* Model of the flow-chart pipeline of excel-vba-sync:                     *)
(*   scripts/VBA-FlowJson.ps1   (symbol table, AnalyzeProcedure, main)     *)
(*   the Mermaid converter whose text is kept in CHANGELOG.md              *)
(* A run analyses the procedures of one module line by line, folds the     *)
(* call sites into a call graph, writes the JSON document and renders one  *)
(* diagram per procedure plus the call graph.                              *)
(***************************************************************************)
EXTENDS Integers, Sequences, FiniteSets, TLC

(***************************************************************************)
(* Bounds of the input classes.  An input class fixes the statement kinds  *)
(* a body is drawn from and the longest body.                              *)
(***************************************************************************)
MaxLenMixed == 2
MaxLenIf == 5
MaxLenIfExit == 4
MaxLenLoop == 4
MaxLenSelect == 4
MaxLenCalls == 2

Profiles == {"mixed", "if", "ifexit", "loop", "select", "calls"}

MaxLenOf(pr) ==
  CASE pr = "mixed" -> MaxLenMixed
    [] pr = "if" -> MaxLenIf
    [] pr = "ifexit" -> MaxLenIfExit
    [] pr = "loop" -> MaxLenLoop
    [] pr = "select" -> MaxLenSelect
    [] OTHER -> MaxLenCalls

\* The statement lines of each input class, as the classification of
\* AnalyzeProcedure sees them: k is the handler that matches first, a its argument.
Ln(k, a) == [k |-> k, a |-> a]

MixedLines ==
  { Ln("Blank", ""), Ln("If1", "op"), Ln("If1", "exit"), Ln("If", ""), Ln("If", "Not"),
    Ln("ElseIf", ""),
    Ln("Else", ""), Ln("EndIf", ""), Ln("Do", "Plain"), Ln("Loop", ""), Ln("For", ""),
    Ln("Next", ""), Ln("Select", ""), Ln("Case", "1"), Ln("CaseElse", ""), Ln("EndSelect", ""),
    Ln("With", ""), Ln("EndWith", ""), Ln("Goto", "L1"), Ln("Exit", ""),
    Ln("Raise", ""), Ln("Call", "Call Foo(1)"), Ln("Op", "") }

IfLines ==
  { Ln("If", ""), Ln("ElseIf", ""), Ln("Else", ""), Ln("EndIf", ""), Ln("Op", "") }

IfExitLines == IfLines \cup { Ln("Exit", "") }

LoopLines ==
  { Ln("Do", "While"), Ln("Do", "Until"), Ln("Loop", ""),
    Ln("For", ""), Ln("Next", ""), Ln("Op", ""), Ln("If", "") }

SelectLines ==
  { Ln("Select", ""), Ln("Case", "1"), Ln("Case", "Else"),
    Ln("EndSelect", ""), Ln("Op", ""), Ln("Exit", ""), Ln("If", "") }

CallLines ==
  { Ln("Call", "Foo()"), Ln("Call", "ModB.Foo()"), Ln("Op", "") }

LinesOf(pr) ==
  CASE pr = "mixed" -> MixedLines
    [] pr = "if" -> IfLines
    [] pr = "ifexit" -> IfExitLines
    [] pr = "loop" -> LoopLines
    [] pr = "select" -> SelectLines
    [] OTHER -> CallLines

\* Label names of a body (a label line is "L1:").
LabelNames == {"L1"}

\* The module under analysis, its sibling modules and the procedure headers of the
\* target file, in source order.
ThisModuleName == "ModA"
Modules == {"ModA", "ModB", "ModC"}
CallNames == {"Foo"}
ProcNames == <<"Main", "Helper">>

(***************************************************************************)
(* Node identifiers.  The id string "n43" or "n43_2" is kept as the number *)
(* of leading 'n' characters, the line and the disambiguating index        *)
(* (1: no suffix).  The empty string / $null is NullId.                    *)
(***************************************************************************)
MkId(line, idx) == [n |-> 1, line |-> line, idx |-> idx]
NullId == [n |-> 0, line |-> 0, idx |-> 0]

\* -replace '^n', '' : one leading 'n' is removed when there is one
StripN(id) == IF id.n > 0 THEN [id EXCEPT !.n = @ - 1] ELSE id

\* "n$(...)" : one 'n' is put in front
PrependN(s) == [s EXCEPT !.n = @ + 1]

\* Node texts the converter tests with regular expressions.
IsUntilText(t) == t = "Do Until c"

(***************************************************************************)
(* AnalyzeProcedure: the locals of one invocation are the fields of a      *)
(* record b.  Frames live in b.frames (they are objects: a frame can be    *)
(* on the stack twice); b.stack holds indices into it, top first.          *)
(***************************************************************************)
Node(id, type, text, line) == [id |-> id, type |-> type, text |-> text, line |-> line]

\* b.prevAt and b.topAt are history fields: the value of $prevId and the frame on top
\* of $stack (NoFrame: none) when each node was added.
NoFrame == [kind |-> "", head |-> NullId, hasElse |-> FALSE]

TopAt(b) ==
  IF b.stack = <<>> THEN NoFrame
  ELSE [kind |-> b.frames[Head(b.stack)].kind, head |-> b.frames[Head(b.stack)].head,
        hasElse |-> b.frames[Head(b.stack)].hasElse]

\* Variant: the id is always n<line>, the set of used ids is not consulted.
AddNode_NoSuffix(b, type, text, line) ==
  [b EXCEPT !.usedIds = @ \cup {MkId(line, 1)},
            !.nodes = Append(@, Node(MkId(line, 1), type, text, line)),
            !.prevAt = Append(@, b.prevId),
            !.topAt = Append(@, TopAt(b)),
            !.ret = MkId(line, 1)]

AddNode(b, type, text, line) ==
  LET idx == CHOOSE k \in 1..(Cardinality(b.usedIds) + 1) :
               /\ MkId(line, k) \notin b.usedIds
               /\ \A j \in 1..(k - 1) : MkId(line, j) \in b.usedIds
      id == MkId(line, idx)
  IN [b EXCEPT !.usedIds = @ \cup {id},
               !.nodes = Append(@, Node(id, type, text, line)),
               !.prevAt = Append(@, b.prevId),
               !.topAt = Append(@, TopAt(b)),
               !.ret = id]

AddEdge(b, from, to, label) ==
  IF from = NullId \/ to = NullId
  THEN b
  ELSE [b EXCEPT !.edges = Append(@, [from |-> from, to |-> to, label |-> label])]

RECURSIVE AddEdgesTo(_, _, _)
\* foreach($endId in $ends){ & $AddEdge $endId $joinId }
AddEdgesTo(b, ends, to) ==
  IF ends = <<>> THEN b ELSE AddEdgesTo(AddEdge(b, Head(ends), to, ""), Tail(ends), to)

LineNum(b) == b.S + b.i

Frame(kind, head, line) ==
  [kind |-> kind, head |-> head, line |-> line, ends |-> <<>>, hasElse |-> FALSE,
   needsYes |-> TRUE, needsNo |-> TRUE, inCase |-> FALSE, hid |-> 0]

\* $stack.Push of a new frame object
PushFrame(b, f) ==
  [b EXCEPT !.frames = Append(@, f), !.stack = <<Len(b.frames) + 1>> \o @]

TopIs(b, kind) == b.stack # <<>> /\ b.frames[Head(b.stack)].kind = kind

\* if($null -ne $prevId){ $top.ends.Add($prevId) }
EndsAdd(b, fi) ==
  IF b.prevId # NullId THEN [b EXCEPT !.frames[fi].ends = Append(@, b.prevId)] ELSE b

\* Position in the stack of the nearest frame of the kind, 0 when there is none.
NearestPos(b, kind) ==
  LET hits == {j \in 1..Len(b.stack) : b.frames[b.stack[j]].kind = kind}
  IN IF hits = {} THEN 0 ELSE CHOOSE j \in hits : \A h \in hits : j <= h

\* Pop-UntilKind: pops until a frame of the kind has been popped; the frames above
\* it are dropped, and all frames are dropped when there is none.  ret: frame index.
PopUntilKind(b, kind) ==
  LET j == NearestPos(b, kind)
  IN IF j = 0
     THEN [b EXCEPT !.stack = <<>>, !.found = 0]
     ELSE [b EXCEPT !.stack = SubSeq(@, j + 1, Len(@)), !.found = b.stack[j]]

\* Peek-NearestKind: index of the nearest frame of the kind, 0 for $null.
PeekNearestKind(b, kind) ==
  LET j == NearestPos(b, kind) IN IF j = 0 THEN 0 ELSE b.stack[j]

\* LoopHierarchy.StartLoop / EndLoop
StartLoop(b) ==
  [b EXCEPT !.loopStack = <<[id |-> b.nextLoopId, level |-> Len(b.loopStack)]>> \o @,
            !.nextLoopId = @ + 1]

\* Variant: the span keeps the ids as they are, with their leading n.
LoopSpan_Unstripped(b, headId, eid, startLine) ==
  LET info == IF b.loopStack = <<>> THEN [id |-> 0, level |-> 0] ELSE Head(b.loopStack)
  IN [headId |-> headId, endId |-> eid, start |-> startLine,
      end |-> LineNum(b), hierarchyId |-> info.id, level |-> info.level]

LoopSpan(b, headId, eid, startLine) ==
  LET info == IF b.loopStack = <<>> THEN [id |-> 0, level |-> 0] ELSE Head(b.loopStack)
  IN [headId |-> StripN(headId), endId |-> StripN(eid), start |-> startLine,
      end |-> LineNum(b), hierarchyId |-> info.id, level |-> info.level]

EndLoop(b) == IF b.loopStack = <<>> THEN b ELSE [b EXCEPT !.loopStack = Tail(@)]

\* IfHierarchy.StartIf / AddElseIf / AddElse / EndIf
StartIf(b) ==
  [b EXCEPT !.ifStack = <<[id |-> b.nextIfId, hasElse |-> FALSE, elseIfCount |-> 0]>> \o @,
            !.nextIfId = @ + 1]

AddElseIf(b) ==
  IF b.ifStack = <<>> THEN b ELSE [b EXCEPT !.ifStack[1].elseIfCount = @ + 1]

AddElse(b) ==
  IF b.ifStack = <<>> THEN b ELSE [b EXCEPT !.ifStack[1].hasElse = TRUE]

EndIfInfo(b) == IF b.ifStack = <<>> THEN b ELSE [b EXCEPT !.ifStack = Tail(@)]

\* $PSBoundParameters.ContainsKey('tid'): the bound parameters are those of
\* AnalyzeProcedure (BodyLines, StartLineOffset, ThisModule, SymbolTable).
TidIsBoundParameter == "tid" \in {"BodyLines", "StartLineOffset", "ThisModule", "SymbolTable"}

\* One-line If:  If c Then <stmt>
OneLineIf(b, stmt) ==
  LET b1 == AddNode(b, "cond", "If c?", LineNum(b))
      cid == b1.ret
      b2 == AddEdge(b1, b.prevId, cid, "")
      b3 == IF stmt = "exit"
            THEN AddNode(b2, "end", "Exit Sub", LineNum(b))
            ELSE AddNode(b2, "op", "x = 1", LineNum(b))
      tid == b3.ret
      b4 == AddEdge(b3, cid, tid, "Yes")
      b5 == AddNode(b4, "join", "End If", LineNum(b))
      joinId == b5.ret
      b6 == AddEdge(b5, cid, joinId, "No")
      b7 == IF TidIsBoundParameter THEN AddEdge(b6, tid, joinId, "") ELSE b6
  IN [b7 EXCEPT !.prevId = joinId]

\* The text of the cond node: "If " + the condition + "?".
IfText(a) == IF a = "Not" THEN "If Not c?" ELSE "If c?"

\* If c Then / If Not c Then
BlockIf(b, a) ==
  LET b1 == AddNode(b, "cond", IfText(a), LineNum(b))
      cid == b1.ret
      b2 == StartIf(AddEdge(b1, b.prevId, cid, ""))
      b3 == PushFrame(b2, [Frame("If", cid, LineNum(b)) EXCEPT !.hid = b.nextIfId])
  IN [b3 EXCEPT !.prevId = cid]

\* ElseIf c Then
ElseIf(b) ==
  IF ~TopIs(b, "If") THEN b
  ELSE
    LET fi == Head(b.stack)
        b1 == EndsAdd([b EXCEPT !.stack = Tail(@)], fi)
        top == b1.frames[fi]
        b2 == AddNode(AddElseIf(b1), "cond", "ElseIf c?", LineNum(b))
        eid == b2.ret
        b3 == AddEdge(b2, top.head, eid, "No")
        b4 == PushFrame(b3, [Frame("If", eid, top.line) EXCEPT
                               !.hasElse = top.hasElse, !.ends = top.ends, !.hid = top.hid])
    IN [b4 EXCEPT !.frames[fi].needsNo = FALSE, !.prevId = eid]

\* Variant: Else marks the frame but adds no node; the next statement takes "No".
Else_NoNode(b) ==
  IF ~TopIs(b, "If") THEN b
  ELSE LET fi == Head(b.stack)
           b1 == AddElse(EndsAdd(b, fi))
       IN [b1 EXCEPT !.frames[fi].hasElse = TRUE, !.prevId = b1.frames[fi].head]

\* Else
Else(b) ==
  IF ~TopIs(b, "If") THEN b
  ELSE
    LET fi == Head(b.stack)
        b1 == AddElse(EndsAdd(b, fi))
    IN IF ~b1.frames[fi].needsNo THEN b1
       ELSE
         LET b2 == AddNode(b1, "op", "Else", LineNum(b))
             elseNodeId == b2.ret
             b3 == AddEdge(b2, b1.frames[fi].head, elseNodeId, "No")
         IN [b3 EXCEPT !.frames[fi].needsNo = FALSE, !.frames[fi].hasElse = TRUE,
                       !.prevId = elseNodeId]

\* End If
EndIf(b) ==
  IF ~TopIs(b, "If") THEN b
  ELSE
    LET fi == Head(b.stack)
        b1 == AddNode([b EXCEPT !.stack = Tail(@)], "join", "End If", LineNum(b))
        joinId == b1.ret
        b2 == EndsAdd(EndIfInfo(b1), fi)
        top == b2.frames[fi]
        b3 == AddEdgesTo(b2, top.ends, joinId)
        b4 == IF ~top.hasElse /\ top.needsNo THEN AddEdge(b3, top.head, joinId, "No") ELSE b3
    IN [b4 EXCEPT !.prevId = joinId]

DoText(a) == CASE a = "While" -> "Do While c" [] a = "Until" -> "Do Until c" [] OTHER -> "Do"

\* Do / Do While c / Do Until c
DoLoop(b, a) ==
  LET b1 == AddNode(b, "loop", DoText(a), LineNum(b))
      did == b1.ret
      b2 == StartLoop(AddEdge(b1, b.prevId, did, ""))
      b3 == PushFrame(b2, [Frame("Do", did, LineNum(b)) EXCEPT !.hid = b.nextLoopId])
  IN [b3 EXCEPT !.prevId = did]

\* Loop
Loop(b) ==
  LET b0 == PopUntilKind(b, "Do")
  IN IF b0.found = 0 THEN b0
     ELSE
       LET top == b0.frames[b0.found]
           b1 == AddNode(b0, "loopEnd", "Loop End", LineNum(b))
           eid == b1.ret
           b2 == AddEdge(b1, b.prevId, eid, "")
           span == LoopSpan(b2, top.head, eid, top.line)
       IN [EndLoop(b2) EXCEPT !.loopSpans = Append(@, span), !.prevId = eid]

\* For ...
ForLoop(b) ==
  LET b1 == AddNode(b, "loop", "For i", LineNum(b))
      fid == b1.ret
      b2 == StartLoop(AddEdge(b1, b.prevId, fid, ""))
      b3 == PushFrame(b2, [Frame("For", fid, LineNum(b)) EXCEPT !.hid = b.nextLoopId])
  IN [b3 EXCEPT !.prevId = fid]

\* Next
Next_(b) ==
  IF ~TopIs(b, "For") THEN b
  ELSE
    LET top == b.frames[Head(b.stack)]
        b1 == AddNode([b EXCEPT !.stack = Tail(@)], "loopEnd", "For Next End", LineNum(b))
        eid == b1.ret
        b2 == AddEdge(b1, b.prevId, eid, "")
        span == LoopSpan(b2, top.head, eid, top.line)
    IN [EndLoop(b2) EXCEPT !.loopSpans = Append(@, span), !.prevId = eid]

\* Select Case n
SelectCase(b) ==
  LET b1 == AddNode(b, "switch", "Select Case n", LineNum(b))
      sid == b1.ret
      b2 == PushFrame(AddEdge(b1, b.prevId, sid, ""), Frame("Select", sid, LineNum(b)))
  IN [b2 EXCEPT !.prevId = sid]

\* Variant: the case node is chained from the previous node, not from the switch.
CaseBranch_FromPrev(b, text) ==
  LET si == PeekNearestKind(b, "Select")
  IN IF si = 0 THEN b
     ELSE
       LET sel == b.frames[si]
           b1 == IF sel.inCase /\ b.prevId # sel.head THEN EndsAdd(b, si) ELSE b
           b2 == AddNode(b1, "case", text, LineNum(b))
           cid == b2.ret
           b3 == AddEdge(b2, b.prevId, cid, "")
       IN [b3 EXCEPT !.prevId = cid, !.frames[si].inCase = TRUE,
                     !.stack = <<si>> \o Tail(@)]

\* The body shared by the Case and the Case Else handler.
CaseBranch(b, text) ==
  LET si == PeekNearestKind(b, "Select")
  IN IF si = 0 THEN b
     ELSE
       LET sel == b.frames[si]
           b1 == IF sel.inCase /\ b.prevId # sel.head THEN EndsAdd(b, si) ELSE b
           b2 == AddNode(b1, "case", text, LineNum(b))
           cid == b2.ret
           b3 == AddEdge(b2, sel.head, cid, "")
       IN [b3 EXCEPT !.prevId = cid, !.frames[si].inCase = TRUE,
                     !.stack = <<si>> \o Tail(@)]

\* Case <expr>   (the pattern ^\s*Case\s+(.+) also takes "Case Else")
Case(b, a) == CaseBranch(b, IF a = "Else" THEN "Case Else" ELSE "Case 1")

\* Case Else handler: reached only by a line the Case pattern does not take ("CaseElse")
CaseElse(b) == CaseBranch(b, "Case Else")

\* End Select.  b.selJoins is a history field: the switch of the frame found and the
\* join added for it.
EndSelect(b) ==
  LET b0 == PopUntilKind(b, "Select")
      b1 == AddNode(b0, "join", "End Select", LineNum(b))
      join == b1.ret
      si == b0.found
      b2 == IF si = 0
            THEN AddEdge(b1, b.prevId, join, "")
            ELSE
              LET c0 == [b1 EXCEPT !.selJoins = Append(@, [head |-> b1.frames[si].head,
                                                           join |-> join])]
                  c1 == IF c0.frames[si].inCase /\ b.prevId # c0.frames[si].head
                        THEN EndsAdd(c0, si) ELSE c0
                  c2 == AddEdgesTo(c1, c1.frames[si].ends, join)
              IN IF c1.frames[si].ends = <<>>
                 THEN AddEdge(c2, c1.frames[si].head, join, "") ELSE c2
  IN [b2 EXCEPT !.prevId = join]

\* With <expr>
With(b) ==
  LET b1 == AddNode(b, "block", "With o", LineNum(b))
      wid == b1.ret
      b2 == PushFrame(AddEdge(b1, b.prevId, wid, ""), Frame("With", wid, LineNum(b)))
  IN [b2 EXCEPT !.prevId = wid]

\* End With
EndWith(b) ==
  LET b0 == PopUntilKind(b, "With")
  IN IF b0.found = 0 THEN b0
     ELSE
       LET b1 == AddNode(b0, "join", "End With", LineNum(b))
           join == b1.ret
       IN [AddEdge(b1, b.prevId, join, "") EXCEPT !.prevId = join]

\* Goto <label>
Goto(b, lbl) ==
  LET b1 == AddNode(b, "goto", "Goto L1", LineNum(b))
      gid == b1.ret
      b2 == AddEdge(b1, b.prevId, gid, "")
      b3 == IF b.labelNodeMap[lbl] # NullId
            THEN AddEdge(b2, gid, b.labelNodeMap[lbl], "goto")
            ELSE IF b.labels[lbl] >= 0
                 THEN AddEdge(b2, gid, MkId(b.S + b.labels[lbl], 1), "goto")
                 ELSE b2
  IN [b3 EXCEPT !.prevId = gid]

\* $nodes | Where-Object { $_.id -eq $prevId } | Select-Object -First 1
TypeOfNode(nodes, id) ==
  IF \E k \in 1..Len(nodes) : nodes[k].id = id
  THEN nodes[CHOOSE k \in 1..Len(nodes) :
               nodes[k].id = id /\ \A j \in 1..(k - 1) : nodes[j].id # id].type
  ELSE ""

\* The body shared by the Exit/Return handler and the Err.Raise handler.
Terminal(b, text) ==
  LET b1 == AddNode(b, "end", text, LineNum(b))
      eid == b1.ret
      b2 == IF TypeOfNode(b1.nodes, b.prevId) = "cond"
            THEN AddEdge(b1, b.prevId, eid, "Yes")
            ELSE AddEdge(b1, b.prevId, eid, "")
  IN [b2 EXCEPT !.prevId = NullId]

\* Exit Sub / Exit Function / Exit Property / Return
ExitReturn(b) == Terminal(b, "Exit Sub")

\* Err.Raise
ErrRaise(b) == Terminal(b, "Err.Raise")

(***************************************************************************)
(* Call detection.  The hits of a line are found by the three patterns     *)
(* $rxCall1 (Call Name( ), $rxCall2 (Mod.Name( ) and $rxCall3 (Name( with  *)
(* its three filters); module "" is $null.                                 *)
(***************************************************************************)
Hit(m, name) == [module |-> m, name |-> name]

Hits(a) ==
  CASE a = "Foo()" -> <<Hit("", "Foo")>>
    [] a = "Call Foo(1)" -> <<Hit("", "Foo"), Hit("", "Foo")>>
    [] a = "ModB.Foo()" -> <<Hit("ModB", "Foo")>>
    [] OTHER -> <<>>

QName(m, p) == [m |-> m, p |-> p]

\* foreach($m in $SymbolTable.Keys){ if($SymbolTable[$m] -contains $c.name){ ...; break } }
\* keys: the order in which the hashtable enumerates its keys.
FirstDeclaring(table, keys, name) ==
  LET hits == {j \in 1..Len(keys) : name \in table[keys[j]]}
  IN IF hits = {} THEN "" ELSE keys[CHOOSE j \in hits : \A h \in hits : j <= h]

\* Variant: an unqualified name that no module declares keeps the null target.
ResolveCall_NullTarget(c, thisModule, table, keys, line) ==
  IF c.module # ""
  THEN [target |-> QName(c.module, c.name),
        resolved |-> c.module \in DOMAIN table /\ c.name \in table[c.module],
        line |-> line]
  ELSE IF thisModule \in DOMAIN table /\ c.name \in table[thisModule]
       THEN [target |-> QName(thisModule, c.name), resolved |-> TRUE, line |-> line]
       ELSE LET m == FirstDeclaring(table, keys, c.name)
            IN [target |-> QName(m, IF m = "" THEN "" ELSE c.name), resolved |-> m # "",
                line |-> line]

\* Variant: a module-qualified call is taken as resolved without a look at the table.
ResolveCall_Trusted(c, thisModule, table, keys, line) ==
  IF c.module # ""
  THEN [target |-> QName(c.module, c.name), resolved |-> TRUE, line |-> line]
  ELSE IF thisModule \in DOMAIN table /\ c.name \in table[thisModule]
       THEN [target |-> QName(thisModule, c.name), resolved |-> TRUE, line |-> line]
       ELSE LET m == FirstDeclaring(table, keys, c.name)
            IN [target |-> QName(m, c.name), resolved |-> m # "", line |-> line]

\* A target with module "" is the bare name.
ResolveCall(c, thisModule, table, keys, line) ==
  IF c.module # ""
  THEN [target |-> QName(c.module, c.name),
        resolved |-> c.module \in DOMAIN table /\ c.name \in table[c.module],
        line |-> line]
  ELSE IF thisModule \in DOMAIN table /\ c.name \in table[thisModule]
       THEN [target |-> QName(thisModule, c.name), resolved |-> TRUE, line |-> line]
       ELSE LET m == FirstDeclaring(table, keys, c.name)
            IN [target |-> QName(m, c.name), resolved |-> m # "", line |-> line]

RECURSIVE ResolveAll(_, _, _, _, _)
ResolveAll(hits, thisModule, table, keys, line) ==
  IF hits = <<>> THEN <<>>
  ELSE <<ResolveCall(Head(hits), thisModule, table, keys, line)>>
         \o ResolveAll(Tail(hits), thisModule, table, keys, line)

\* Connection of an op or call node: inside an If frame the first statement is
\* reached from the condition by "Yes", later ones from prevId unless it is the
\* condition; outside an If frame from prevId.
Connect(b, id) ==
  IF TopIs(b, "If")
  THEN LET fi == Head(b.stack)
           top == b.frames[fi]
       IN IF top.needsYes /\ ~top.hasElse
          THEN [AddEdge(b, top.head, id, "Yes") EXCEPT !.frames[fi].needsYes = FALSE]
          ELSE IF b.prevId # NullId /\ b.prevId # top.head
               THEN AddEdge(b, b.prevId, id, "")
               ELSE b
  ELSE AddEdge(b, b.prevId, id, "")

\* A line with at least one call hit.
CallSite(b, a, thisModule, table, keys) ==
  LET b1 == [b EXCEPT !.calls = @ \o ResolveAll(Hits(a), thisModule, table, keys, LineNum(b))]
      b2 == AddNode(b1, "call", a, LineNum(b))
      cid == b2.ret
  IN [Connect(b2, cid) EXCEPT !.prevId = cid]

\* Any other statement.
Op(b) ==
  LET b1 == AddNode(b, "op", "x = 1", LineNum(b))
      oid == b1.ret
  IN [Connect(b1, oid) EXCEPT !.prevId = oid]

\* The state of AnalyzeProcedure when its line loop starts: the label pre-scan has
\* filled $labels (index of the last declaration of each label, -1: none) and the
\* start node is in place.
StartAnalyze(S, labels) ==
  LET b0 == [S |-> S, i |-> 0, nodes |-> <<>>, edges |-> <<>>, calls |-> <<>>,
             loopSpans |-> <<>>, usedIds |-> {}, prevAt |-> <<>>, topAt |-> <<>>, selJoins |-> <<>>, stack |-> <<>>, frames |-> <<>>,
             prevId |-> NullId, labels |-> labels,
             labelNodeMap |-> [l \in LabelNames |-> NullId],
             loopStack |-> <<>>, nextLoopId |-> 1, ifStack |-> <<>>, nextIfId |-> 1,
             ret |-> NullId, found |-> 0]
      b1 == AddNode(b0, "start", "Start", S)
  IN [b1 EXCEPT !.prevId = b1.ret]

\* Variant: the final end node is added but not connected.
FinishAnalyze_Unconnected(b, len) == AddNode(b, "end", "End", b.S + len)

\* The final end node and the value AnalyzeProcedure returns.
FinishAnalyze(b, len) ==
  LET b1 == AddNode(b, "end", "End", b.S + len)
  IN AddEdge(b1, b.prevId, b1.ret, "")

(***************************************************************************)
(* The run.                                                                *)
(***************************************************************************)
FirstHeaderLine == 1

VARIABLES
  profile,      \* input class of the run
  numProcs,     \* procedures ParseProcedures found in the target file
  folderExists, \* whether the directory given as $FolderPath exists
  files,        \* the module files of the directory that is scanned, one per module
  folderPath,   \* $FolderPath after the existence check of the main script
  symbolTable,  \* $symbolTable: module name -> declared procedure names (<<>>: none yet)
  keyOrder,     \* order in which $SymbolTable.Keys enumerates in this run
  keyOrderB,    \* the same for a second run on the same input
  pc,           \* position of the pipeline
  ap,           \* locals of the running AnalyzeProcedure
  body,         \* $BodyLines read so far by the line loop
  callsB,       \* $calls of the second run of AnalyzeProcedure on the same lines
  procOut,      \* $procOut
  gNodes,       \* $gNodes
  gEdges,       \* $gEdges
  jsonDoc,      \* the document written by VBA-FlowJson.ps1 (<<>>: none yet)
  mmd,          \* the .mmd files written per procedure, in order
  callgraphMmd  \* the callgraph .mmd file (<<>>: none yet)

\* import_opened_vba.ps1, a script of its own
VARIABLES
  workbooks,    \* $workbooks: the saved open workbooks with their VBProject
  booksBefore,  \* history: $workbooks when the import run started
  targetFiles,  \* $targetFiles: the files Get-Item / Get-ChildItem lists
  imp           \* position of the import run and its locals

\* the front end of VBA-FlowJson.ps1 on the text of the target file
VARIABLES
  text          \* the raw lines, the joined lines, the procedures found and the
                \* body lines as the line loop sees them after StripComments

VARIABLES
  mcp           \* extension.ts: mcpProc, reqId, pending, the child processes spawned
                \* and the commands under way

flowVars == <<profile, numProcs, folderExists, files, folderPath, symbolTable, keyOrder,
              keyOrderB, pc, ap, body, callsB, procOut, gNodes, gEdges, jsonDoc, mmd,
              callgraphMmd>>
importVars == <<workbooks, booksBefore, targetFiles, imp>>

vars == <<flowVars, importVars, text, mcp>>

inputVars == <<profile, numProcs, folderExists, files, keyOrder, keyOrderB>>
scanVars == <<folderPath, symbolTable>>
outVars == <<procOut, gNodes, gEdges, jsonDoc, mmd, callgraphMmd>>

Perms(S) == {f \in [1..Cardinality(S) -> S] : \A x, y \in DOMAIN f : f[x] = f[y] => x = y}

\* Enumeration orders of $SymbolTable.Keys taken into account.  The scan for a
\* declaring module depends only on the relative order of the declaring modules.
KeyOrders == {kk \in Perms(Modules) : kk[2] = "ModB"}

NoLabels == [l \in LabelNames |-> -1]

\* A module file of the scanned directory: one that Get-Content reads, with the
\* procedure names its header lines declare; one that cannot be read (locked, access
\* denied); one without any line.
ModuleFile(decls) == [kind |-> "ok", decls |-> decls]
FileClasses ==
  {ModuleFile(d) : d \in SUBSET CallNames}
    \cup {[kind |-> "unreadable", decls |-> CallNames], [kind |-> "empty", decls |-> {}]}

\* ReadFileLines under $ErrorActionPreference = 'Stop': an error of Get-Content ends
\* the script.
ReadFileLinesThrows(f) == f.kind = "unreadable"

\* GetModuleName reads $Lines[0] even when there is no line; under Set-StrictMode
\* -Version Latest the index out of bounds is an error.
GetModuleNameThrows(f) == f.kind = "empty"

\* BuildSymbolTable: <<>> when an exception leaves it, else the table.
BuildSymbolTable(fs) ==
  IF \E m \in Modules : ReadFileLinesThrows(fs[m]) \/ GetModuleNameThrows(fs[m])
  THEN <<>>
  ELSE <<[m \in Modules |-> fs[m].decls]>>

\* No import run.
\* The text of the target file is not followed in this run.
TextIdle == [pc |-> "off", raw |-> <<>>, lines |-> <<>>, procs |-> <<>>, code |-> <<>>]

\* The extension is not followed in this run.
McpIdle == [pc |-> "off", mcpProc |-> 0, procs |-> <<>>, reqId |-> 0, pending |-> {},
            settled |-> <<>>, tasks |-> <<>>, cmds |-> 0, ret |-> 0]

ImportIdle ==
  /\ text = TextIdle
  /\ mcp = McpIdle
  /\ workbooks = <<>>
  /\ booksBefore = <<>>
  /\ targetFiles = <<>>
  /\ imp = [pc |-> "off", wb |-> 0, file |-> 0, existing |-> {}, anySuccess |-> FALSE,
           dirFound |-> FALSE]

Init ==
  /\ ImportIdle
  /\ profile \in Profiles
  /\ numProcs \in (IF profile = "calls" THEN 1..Len(ProcNames) ELSE {1})
  /\ folderExists \in BOOLEAN
  /\ files \in [Modules -> FileClasses]
  /\ profile # "calls" => folderExists /\ files = [m \in Modules |-> ModuleFile({})]
  /\ ~folderExists => numProcs = 1
  /\ folderPath = "FolderPath"
  /\ symbolTable = <<>>
  /\ keyOrder \in KeyOrders
  /\ keyOrderB \in KeyOrders
  /\ profile # "calls" => keyOrder = keyOrderB /\ keyOrder[1] = "ModA" /\ keyOrder[2] = "ModB"
  /\ pc = "start"
  /\ \E labels \in [LabelNames -> (-1)..(MaxLenOf(profile) - 1)] :
       /\ profile # "mixed" => labels = NoLabels
       /\ ap = StartAnalyze(FirstHeaderLine, labels)
  /\ body = <<>>
  /\ callsB = <<>>
  /\ procOut = <<>>
  /\ gNodes = {}
  /\ gEdges = <<>>
  /\ jsonDoc = <<>>
  /\ mmd = <<>>
  /\ callgraphMmd = <<>>

\* The main script checks $FolderPath: a directory that does not exist is replaced,
\* with a warning, by the directory of $FilePath (which exists: the script ends
\* before the scan when $FilePath is no file).
NormalizePaths ==
  /\ pc = "start"
  /\ folderPath' = IF folderExists THEN "FolderPath" ELSE "DirectoryOfFilePath"
  /\ pc' = "scan"
  /\ UNCHANGED <<inputVars, importVars, text, mcp, symbolTable, ap, body, callsB, outVars>>

\* $symbolTable = BuildSymbolTable -Folder $FolderPath ; an exception ends the run.
ScanFolder ==
  /\ pc = "scan"
  /\ symbolTable' = BuildSymbolTable(files)
  /\ pc' = IF BuildSymbolTable(files) = <<>> THEN "failed" ELSE "analyze"
  /\ UNCHANGED <<inputVars, importVars, text, mcp, folderPath, ap, body, callsB, outVars>>

\* The line loop is at index ap.i; a line that is not a label declaration can stand
\* there only if the pre-scan found no label at that index.
CanRead(ln) ==
  /\ pc = "analyze"
  /\ ap.i < MaxLenOf(profile)
  /\ ln \in LinesOf(profile)
  /\ \A l \in LabelNames : ap.labels[l] # ap.i

\* for($i=0; ...; $i++): the handler's result, the line consumed
Advance(b, ln) ==
  /\ ap' = [b EXCEPT !.i = @ + 1, !.ret = NullId, !.found = 0]
  /\ body' = Append(body, ln)
  /\ UNCHANGED <<inputVars, importVars, text, mcp, scanVars, outVars, pc>>

LineBlank ==
  /\ CanRead(Ln("Blank", ""))
  /\ Advance(ap, Ln("Blank", ""))
  /\ UNCHANGED callsB

\* A label declaration is skipped by the line loop (the pattern at its top).
LineLabel ==
  \E l \in LabelNames :
    /\ pc = "analyze"
    /\ profile = "mixed"
    /\ ap.i < MaxLenOf(profile)
    /\ ap.labels[l] >= ap.i
    /\ Advance(ap, Ln("Label", l))
    /\ UNCHANGED callsB

LineOneLineIf ==
  \E a \in {"op", "exit"} :
    /\ CanRead(Ln("If1", a))
    /\ Advance(OneLineIf(ap, a), Ln("If1", a))
    /\ UNCHANGED callsB

LineIf ==
  /\ \E a \in {"", "Not"} :
       /\ CanRead(Ln("If", a))
       /\ Advance(BlockIf(ap, a), Ln("If", a))
  /\ UNCHANGED callsB

LineElseIf ==
  /\ CanRead(Ln("ElseIf", ""))
  /\ Advance(ElseIf(ap), Ln("ElseIf", ""))
  /\ UNCHANGED callsB

LineElse ==
  /\ CanRead(Ln("Else", ""))
  /\ Advance(Else(ap), Ln("Else", ""))
  /\ UNCHANGED callsB

LineEndIf ==
  /\ CanRead(Ln("EndIf", ""))
  /\ Advance(EndIf(ap), Ln("EndIf", ""))
  /\ UNCHANGED callsB

LineDo ==
  \E a \in {"While", "Until", "Plain"} :
    /\ CanRead(Ln("Do", a))
    /\ Advance(DoLoop(ap, a), Ln("Do", a))
    /\ UNCHANGED callsB

LineLoop ==
  /\ CanRead(Ln("Loop", ""))
  /\ Advance(Loop(ap), Ln("Loop", ""))
  /\ UNCHANGED callsB

LineFor ==
  /\ CanRead(Ln("For", ""))
  /\ Advance(ForLoop(ap), Ln("For", ""))
  /\ UNCHANGED callsB

LineNext ==
  /\ CanRead(Ln("Next", ""))
  /\ Advance(Next_(ap), Ln("Next", ""))
  /\ UNCHANGED callsB

LineSelectCase ==
  /\ CanRead(Ln("Select", ""))
  /\ Advance(SelectCase(ap), Ln("Select", ""))
  /\ UNCHANGED callsB

LineCase ==
  \E a \in {"1", "Else"} :
    /\ CanRead(Ln("Case", a))
    /\ Advance(Case(ap, a), Ln("Case", a))
    /\ UNCHANGED callsB

LineCaseElse ==
  /\ CanRead(Ln("CaseElse", ""))
  /\ Advance(CaseElse(ap), Ln("CaseElse", ""))
  /\ UNCHANGED callsB

LineEndSelect ==
  /\ CanRead(Ln("EndSelect", ""))
  /\ Advance(EndSelect(ap), Ln("EndSelect", ""))
  /\ UNCHANGED callsB

LineWith ==
  /\ CanRead(Ln("With", ""))
  /\ Advance(With(ap), Ln("With", ""))
  /\ UNCHANGED callsB

LineEndWith ==
  /\ CanRead(Ln("EndWith", ""))
  /\ Advance(EndWith(ap), Ln("EndWith", ""))
  /\ UNCHANGED callsB

LineGoto ==
  \E l \in LabelNames :
    /\ CanRead(Ln("Goto", l))
    /\ Advance(Goto(ap, l), Ln("Goto", l))
    /\ UNCHANGED callsB

LineExit ==
  /\ CanRead(Ln("Exit", ""))
  /\ Advance(ExitReturn(ap), Ln("Exit", ""))
  /\ UNCHANGED callsB

LineErrRaise ==
  /\ CanRead(Ln("Raise", ""))
  /\ Advance(ErrRaise(ap), Ln("Raise", ""))
  /\ UNCHANGED callsB

LineCall ==
  \E a \in {"Foo()", "Call Foo(1)", "ModB.Foo()"} :
    /\ CanRead(Ln("Call", a))
    /\ Advance(CallSite(ap, a, ThisModuleName, symbolTable[1], keyOrder), Ln("Call", a))
    /\ callsB' = callsB \o ResolveAll(Hits(a), ThisModuleName, symbolTable[1], keyOrderB,
                                      LineNum(ap))

LineOp ==
  /\ CanRead(Ln("Op", ""))
  /\ Advance(Op(ap), Ln("Op", ""))
  /\ UNCHANGED callsB

RECURSIVE CallEdges_Merged(_, _)
\* Variant: a call whose target a later call of the procedure has too adds no edge.
CallEdges_Merged(from, calls) ==
  IF calls = <<>> THEN <<>>
  ELSE (IF \E k \in 2..Len(calls) : calls[k].target = Head(calls).target THEN <<>>
        ELSE <<[from |-> from, to |-> Head(calls).target, resolved |-> Head(calls).resolved]>>)
         \o CallEdges_Merged(from, Tail(calls))

\* foreach($c in $flow.calls){ ... $gEdges.Add(...) }
RECURSIVE CallEdges(_, _)
CallEdges(from, calls) ==
  IF calls = <<>> THEN <<>>
  ELSE <<[from |-> from, to |-> Head(calls).target, resolved |-> Head(calls).resolved]>>
         \o CallEdges(from, Tail(calls))

\* The line loop has read the whole body: AnalyzeProcedure returns and the main loop
\* records the procedure and its calls, then goes on with the next procedure.
\* body, callsB, prevAt, topAt and selJoins are history fields of the record, not part of the output.
EndProcedure ==
  /\ pc = "analyze"
  /\ \A l \in LabelNames : ap.labels[l] < ap.i
  /\ LET flow == FinishAnalyze(ap, Len(body))
         name == ProcNames[Len(procOut) + 1]
         from == QName(ThisModuleName, name)
         endLine == ap.S + Len(body) + 1
     IN /\ procOut' = Append(procOut,
                        [name |-> name, startLine |-> ap.S, endLine |-> endLine,
                         calls |-> flow.calls, nodes |-> flow.nodes, edges |-> flow.edges,
                         loopSpans |-> flow.loopSpans,
                         body |-> body, callsB |-> callsB, prevAt |-> flow.prevAt,
                         topAt |-> flow.topAt, selJoins |-> flow.selJoins])
        /\ gNodes' = gNodes \cup UNION {{from, flow.calls[k].target} : k \in 1..Len(flow.calls)}
        /\ gEdges' = gEdges \o CallEdges(from, flow.calls)
        /\ IF Len(procOut) + 1 < numProcs
           THEN /\ ap' = StartAnalyze(endLine + 1, NoLabels)
                /\ pc' = "analyze"
           ELSE /\ ap' = [flow EXCEPT !.ret = NullId]
                /\ pc' = "assembled"
  /\ body' = <<>>
  /\ callsB' = <<>>
  /\ UNCHANGED <<inputVars, importVars, text, mcp, scanVars, jsonDoc, mmd, callgraphMmd>>

\* $out | ConvertTo-Json -Depth 20 | Out-FileUtf8NoBom
WriteJson ==
  /\ pc = "assembled"
  /\ jsonDoc' = <<[moduleName |-> ThisModuleName, procedures |-> procOut,
                   callgraph |-> [nodes |-> gNodes, edges |-> gEdges]]>>
  /\ pc' = "written"
  /\ UNCHANGED <<inputVars, importVars, text, mcp, scanVars, ap, body, callsB, procOut, gNodes, gEdges, mmd, callgraphMmd>>

\* The document at $JsonPath is the one the Builder wrote in this run.
IsBuilderDocument == jsonDoc # <<>> /\ jsonDoc[1].procedures = procOut

\* "n0": the id of no node, line 0 lies before every procedure header.
UnknownId == MkId(0, 1)

\* Input classes whose documents are also drawn after a change made by hand or by
\* another producer.
EditProfiles == {"if", "loop", "calls"}

\* Changes to one procedure of a document: a node of type label (a document of a
\* producer that draws label anchors), an edge listed twice, a span that names an id
\* no node has.
LabelNodeAdded(pr) ==
  [pr EXCEPT !.nodes = Append(@, Node(UnknownId, "label", "Label: L1", 0))]

EdgeRepeated(pr, k) == [pr EXCEPT !.edges = Append(@, pr.edges[k])]

SpanAdded(pr, headId, endId) ==
  [pr EXCEPT !.loopSpans = Append(@, [headId |-> StripN(headId), endId |-> StripN(endId),
                                      start |-> 0, end |-> 0, hierarchyId |-> 0,
                                      level |-> 0])]

\* A document whose loop terminators are join nodes that carry the text "Loop End" or
\* "For Next End", the form the converter tells from the other joins by their text.
LoopEndAsJoin(pr) ==
  [pr EXCEPT !.nodes = [k \in 1..Len(pr.nodes) |->
                          IF pr.nodes[k].type = "loopEnd"
                          THEN [pr.nodes[k] EXCEPT !.type = "join"] ELSE pr.nodes[k]]]

\* A document of a producer that leaves the Yes/No labels to the converter: the
\* edges carry no label; and the same with the edge list in the opposite order.
Unlabelled(pr) ==
  [pr EXCEPT !.edges = [k \in 1..Len(pr.edges) |-> [pr.edges[k] EXCEPT !.label = ""]]]

UnlabelledReversed(pr) ==
  [pr EXCEPT !.edges = [k \in 1..Len(pr.edges) |->
                          [pr.edges[Len(pr.edges) + 1 - k] EXCEPT !.label = ""]]]

Edits(pr) ==
  CASE profile = "calls" -> {LabelNodeAdded(pr)}
    [] profile = "if" -> {q \in {Unlabelled(pr), UnlabelledReversed(pr)} : q # pr}
    [] OTHER ->
         {EdgeRepeated(pr, k) : k \in 1..Len(pr.edges)}
           \cup {SpanAdded(pr, UnknownId, pr.nodes[Len(pr.nodes)].id),
                 SpanAdded(pr, pr.nodes[1].id, UnknownId)}
           \cup {q \in {LoopEndAsJoin(pr)} : q # pr}

\* The converter is a script of its own: the file it is given is whatever is at
\* $JsonPath when it starts, here the Builder's document or one changed once.
EditDocument ==
  /\ pc = "written"
  /\ mmd = <<>>
  /\ IsBuilderDocument
  /\ profile \in EditProfiles
  /\ \E j \in 1..Len(procOut) : \E pr \in Edits(jsonDoc[1].procedures[j]) :
       jsonDoc' = <<[jsonDoc[1] EXCEPT !.procedures[j] = pr]>>
  /\ UNCHANGED <<inputVars, importVars, text, mcp, scanVars, pc, ap, body, callsB, procOut, gNodes, gEdges, mmd, callgraphMmd>>

(***************************************************************************)
(* The Mermaid converter.  It reads the document back from JSON and draws  *)
(* one flowchart per procedure, then the call graph.  A line of a diagram  *)
(* is kept as its parts; semi tells whether Add-LineUnique normalised it   *)
(* (trailing semicolon) or it was added to $lines as built.                *)
(***************************************************************************)
IsIfNotText(t) == t = "If Not c?"
IsElseIfNotText(t) == t = "ElseIf Not c?"

\* SafeId "$prefix`_$id": the prefix is the same for all ids of one diagram and the
\* characters of an id ([n0-9_]) are kept.
DiagId(prefix, id) == [prefix |-> prefix, id |-> id]

HasNode(pr, id) == \E k \in 1..Len(pr.nodes) : pr.nodes[k].id = id

\* $nodeMap[$n.id] = $n : the last node of an id stays
NodeOf(pr, id) ==
  pr.nodes[CHOOSE k \in 1..Len(pr.nodes) :
             pr.nodes[k].id = id /\ \A j \in (k + 1)..Len(pr.nodes) : pr.nodes[j].id # id]

TypeIn(pr, id) == IF HasNode(pr, id) THEN NodeOf(pr, id).type ELSE ""

RECURSIVE SelectEdges(_, _)
\* $edgesByFrom[$fid]
SelectEdges(edges, from) ==
  IF edges = <<>> THEN <<>>
  ELSE (IF Head(edges).from = from THEN <<Head(edges)>> ELSE <<>>)
         \o SelectEdges(Tail(edges), from)

RECURSIVE NonJoinEdges(_, _)
\* the out-edges whose target is not a join node
NonJoinEdges(pr, outs) ==
  IF outs = <<>> THEN <<>>
  ELSE (IF TypeIn(pr, Head(outs).to) = "join" THEN <<>> ELSE <<Head(outs)>>)
         \o NonJoinEdges(pr, Tail(outs))

IsLoopEndJoin(n) == n.type = "join" /\ n.text \in {"Loop End", "For Next End"}

IsJoin(n) == n.type = "join" \/ n.text \in {"End If", "Loop End", "End Select"}

IsLoopHeader(n) == n.type = "loop" /\ n.text # "Loop End"

LoopEndMap(pr) == {pr.nodes[k].id : k \in {j \in 1..Len(pr.nodes) : IsLoopEndJoin(pr.nodes[j])}}

\* SafeSort: Sort-Object is given $key1, $key2, which are not set; under
\* Set-StrictMode the read throws, the catch returns the input as it is.
SafeSort(seq) == seq

\* The spans the converter derives itself: for each loop-end join the loop node of
\* the greatest line below it (the first one of that line).
RSpanOf(pr, n) ==
  LET cands == {k \in 1..Len(pr.nodes) : pr.nodes[k].type = "loop" /\ pr.nodes[k].line < n.line}
      best == CHOOSE k \in cands :
                /\ \A j \in cands : pr.nodes[j].line <= pr.nodes[k].line
                /\ \A j \in cands : pr.nodes[j].line = pr.nodes[k].line => k <= j
  IN IF cands = {} THEN <<>>
     ELSE <<[headId |-> pr.nodes[best].id, endId |-> n.id,
             start |-> pr.nodes[best].line, end |-> n.line]>>

RECURSIVE RSpans(_, _)
RSpans(pr, k) ==
  IF k > Len(pr.nodes) THEN <<>>
  ELSE (IF IsLoopEndJoin(pr.nodes[k]) THEN RSpanOf(pr, pr.nodes[k]) ELSE <<>>)
         \o RSpans(pr, k + 1)

\* $condPlan[$fromId]
CondPlan(pr, fromId) ==
  LET outs == SafeSort(NonJoinEdges(pr, SelectEdges(pr.edges, fromId)))
      t == IF Len(outs) >= 1 THEN outs[1].to ELSE NullId
      e == IF Len(outs) >= 2 THEN outs[2].to ELSE NullId
      isNot == IsIfNotText(NodeOf(pr, fromId).text) \/ IsElseIfNotText(NodeOf(pr, fromId).text)
  IN IF TypeIn(pr, fromId) = "cond" /\ Len(outs) >= 1
     THEN [has |-> TRUE, then |-> IF isNot THEN e ELSE t, else |-> IF isNot THEN t ELSE e]
     ELSE [has |-> FALSE, then |-> NullId, else |-> NullId]

\* $loopPlan[$fromId]
LoopPlan(pr, fromId) ==
  LET outs == SelectEdges(pr.edges, fromId)
      ends == {k \in 1..Len(outs) : outs[k].to \in LoopEndMap(pr)}
      cand == SafeSort(NonJoinEdges(pr, outs))
  IN IF TypeIn(pr, fromId) = "loop" /\ Len(outs) > 0
     THEN [has |-> TRUE,
           bodyFirst |-> IF cand = <<>> THEN NullId ELSE cand[1].to,
           endId |-> IF ends = {} THEN NullId
                     ELSE outs[CHOOSE k \in ends : \A j \in ends : k <= j].to]
     ELSE [has |-> FALSE, bodyFirst |-> NullId, endId |-> NullId]

\* Node-Line: the shape drawn for a node; "throws" for a label node, whose line
\* reads the unset variable $text under Set-StrictMode.
NodeShape(n) ==
  IF IsLoopEndJoin(n) THEN "invtrapezoid"
  ELSE IF IsJoin(n) THEN "circle"
  ELSE IF IsLoopHeader(n) THEN "trapezoid"
  ELSE CASE n.type = "label" -> "throws"
         [] n.type = "spacer" -> "blank"
         [] n.type \in {"start", "end"} -> "stadium"
         [] n.type = "cond" -> "diamond"
         [] n.type = "loopEnd" -> "invtrapezoid"
         [] n.type = "call" -> "subroutine"
         [] n.type = "switch" -> "hexagon"
         [] OTHER -> "rect"

NodeLine(prefix, n) == [id |-> DiagId(prefix, n.id), shape |-> NodeShape(n), text |-> n.text]

\* Map-LoopLabel
MapLoopLabel(RawLabel, LoopHeaderText) ==
  LET isUntil == IsUntilText(LoopHeaderText)
  IN CASE RawLabel \in {"loop", "next"} -> IF isUntil THEN "No" ELSE "Yes"
       [] RawLabel = "exit" -> IF isUntil THEN "Yes" ELSE "No"
       [] OTHER -> ""

EdgeText(from, arrow, label, to) ==
  [from |-> from, to |-> to, label |-> label, arrow |-> arrow, semi |-> FALSE]

NoLine == EdgeText(NullId, "", "", NullId)
Throws == EdgeText(NullId, "throws", "", NullId)

\* Edge-Line: the text of an edge, NoLine for "" and Throws when it reads a property
\* of a missing node under Set-StrictMode.
EdgeLine(prefix, pr, e) ==
  LET from == DiagId(prefix, e.from)
      to == DiagId(prefix, e.to)
      lab == e.label
      hasFrom == HasNode(pr, e.from)
      hasTo == HasNode(pr, e.to)
      fromNode == NodeOf(pr, e.from)
      toNode == NodeOf(pr, e.to)
      fromType == TypeIn(pr, e.from)
      rspans == RSpans(pr, 1)
      hitSpans == {k \in 1..Len(rspans) :
                     /\ fromNode.line >= rspans[k].start
                     /\ fromNode.line <= rspans[k].end
                     /\ rspans[k].headId = e.to}
      plan == CondPlan(pr, e.from)
      lp == LoopPlan(pr, e.from)
      plain == IF lab = "" THEN EdgeText(from, "-->", "", to) ELSE EdgeText(from, "-->", lab, to)
  IN IF lab \in {"Yes", "No", "Else", "ElseIf"}
     THEN IF ~hasFrom THEN Throws
          ELSE IF IsIfNotText(fromNode.text) /\ lab \in {"Yes", "No"}
               THEN EdgeText(from, "-->", IF lab = "Yes" THEN "No" ELSE "Yes", to)
               ELSE EdgeText(from, "-->", lab, to)
     ELSE IF fromType = "loop" /\ lab = "exit"
     THEN IF hasTo /\ (toNode.type = "join" \/ toNode.text \in {"Loop End", "For Next End"})
          THEN EdgeText(from, "-->", "", to) ELSE NoLine
     ELSE IF hasFrom /\ lab \in {"next", "loop"}
     THEN IF hitSpans # {}
          THEN EdgeText(from, "-->", "",
                        DiagId(prefix, rspans[CHOOSE k \in hitSpans : \A j \in hitSpans : k <= j].endId))
          ELSE EdgeText(from, "-->", "", to)
     ELSE IF fromType = "loop" /\ MapLoopLabel(lab, fromNode.text) # ""
     THEN EdgeText(from, "-->", MapLoopLabel(lab, fromNode.text), to)
     ELSE IF fromType = "cond" /\ TypeIn(pr, e.to) = "join"
     THEN plain
     ELSE IF fromType = "cond" /\ lab = ""
     THEN IF plan.has /\ plan.then # NullId /\ e.to = plan.then THEN EdgeText(from, "-->", "Yes", to)
          ELSE IF plan.has /\ plan.else # NullId /\ e.to = plan.else
               THEN EdgeText(from, "-->", "No", to)
               ELSE EdgeText(from, "-->", "", to)
     ELSE IF fromType = "loop"
     THEN IF lp.has /\ lp.bodyFirst # NullId /\ e.to = lp.bodyFirst THEN EdgeText(from, "-->", "", to)
          ELSE IF lp.has /\ lp.endId # NullId /\ e.to = lp.endId
               THEN EdgeText(from, "-.->", "No", to)
               ELSE plain
     ELSE plain

\* Add-LineUnique reads the node ids back from the two ends of a "-->" line with the
\* pattern _(n\d+)$ ; an id with a suffix (n43_2) does not match it.
\* The call graph passes no node map ($null).
NoNodeMap == [nodes |-> <<>>, edges |-> <<>>]

IdReadBack(pr, d) ==
  IF pr = NoNodeMap THEN ""
  ELSE IF d.id.n = 1 /\ d.id.idx = 1 THEN TypeIn(pr, d.id) ELSE ""

\* Add-LineUnique on the render state r = [lines, seen, ...]
AddLineUnique(r, pr, ln) ==
  LET line == [ln EXCEPT !.semi = TRUE]
  IN IF ln = NoLine \/ line \in r.seen THEN r
     ELSE IF /\ ln.arrow = "-->"
             /\ IdReadBack(pr, ln.from) = "loop"
             /\ IdReadBack(pr, ln.to) = "loopEnd"
          THEN r
          ELSE [r EXCEPT !.lines = Append(@, line), !.seen = @ \cup {line}]


\* The filter on edges from a call node (a pattern on two literal texts).
IsInvalidElseIfEdge(pr, e) ==
  /\ TypeIn(pr, e.from) = "call"
  /\ NodeOf(pr, e.from).text = "maskOct(i) = 0"
  /\ HasNode(pr, e.to)
  /\ NodeOf(pr, e.to).text \in {"((a))", "a ^ b", "a And b", "a Or b"}

\* One turn of the edge loop (step 6).  r.condLabels is $conditionLabels as the set
\* of its entries, r.processed the keys of $processedNodes.
RenderEdge(r, prefix, pr, e) ==
  LET ft == TypeIn(pr, e.from)
      known == {c \in r.condLabels : c.from = e.from /\ c.label = e.label}
      checkCond == ft = "cond" /\ e.label # ""
      skip1 == checkCond /\ known # {} /\ \E c \in known : c.to # e.to
      r1 == IF checkCond /\ known = {}
            THEN [r EXCEPT !.condLabels = @ \cup {[from |-> e.from, label |-> e.label, to |-> e.to]}]
            ELSE r
      checkOp == ~skip1 /\ ft \in {"op", "call"}
      skip2 == checkOp /\ e.from \in r1.processed
      r2 == IF checkOp /\ ~skip2 THEN [r1 EXCEPT !.processed = @ \cup {e.from}] ELSE r1
      lp == LoopPlan(pr, e.from)
      skip3 == lp.has /\ lp.endId # NullId /\ e.to = lp.endId
      skip4 == IsInvalidElseIfEdge(pr, e)
      el == EdgeLine(prefix, pr, e)
  IN IF skip1 \/ skip2 \/ skip3 \/ skip4 THEN r2
     ELSE IF el = Throws THEN [r2 EXCEPT !.ok = FALSE]
     ELSE AddLineUnique(r2, pr, el)

RECURSIVE RenderEdges(_, _, _, _)
RenderEdges(r, prefix, pr, k) ==
  IF k > Len(pr.edges) \/ ~r.ok THEN r
  ELSE RenderEdges(RenderEdge(r, prefix, pr, pr.edges[k]), prefix, pr, k + 1)

MaxLevel(spans) ==
  IF spans = <<>> THEN 0
  ELSE CHOOSE lv \in {spans[k].level : k \in 1..Len(spans)} :
         \A k \in 1..Len(spans) : spans[k].level <= lv

RECURSIVE ByLevel(_, _)
\* Sort-Object { level } -Descending: spans of a higher level first, spans of one
\* level in the order of the document
ByLevel(spans, lv) ==
  IF lv < 0 THEN <<>>
  ELSE SelectSeq(spans, LAMBDA sp : sp.level = lv) \o ByLevel(spans, lv - 1)

\* Variant: the ids of the span are used as they are stored, without the leading n.
BackEdge_AsStored(r, prefix, span) ==
  LET loopHead == DiagId(prefix, span.headId)
      loopEnd == DiagId(prefix, span.endId)
      backEdge == EdgeText(loopEnd, "-.->", "", loopHead)
      edgeKey == EdgeText(loopEnd, "->", "", loopHead)
  IN IF backEdge \notin r.seen /\ edgeKey \notin r.seen
     THEN [r EXCEPT !.lines = Append(@, backEdge), !.seen = @ \cup {backEdge, edgeKey}]
     ELSE r

\* The back-edge of one span of the document: $lines gets the text as built, $seen
\* the text and the key "$loopEnd->$loopHead".
BackEdge(r, prefix, span) ==
  LET loopHead == DiagId(prefix, PrependN(span.headId))
      loopEnd == DiagId(prefix, PrependN(span.endId))
      backEdge == EdgeText(loopEnd, "-.->", "", loopHead)
      edgeKey == EdgeText(loopEnd, "->", "", loopHead)
  IN IF backEdge \notin r.seen /\ edgeKey \notin r.seen
     THEN [r EXCEPT !.lines = Append(@, backEdge), !.seen = @ \cup {backEdge, edgeKey}]
     ELSE r

RECURSIVE BackEdges(_, _, _)
BackEdges(r, prefix, spans) ==
  IF spans = <<>> THEN r
  ELSE BackEdges(BackEdge(r, prefix, Head(spans)), prefix, Tail(spans))

RECURSIVE SynthBack(_, _, _, _)
\* Step 7: for each loop head of $loopPlan with an endId, the line end -.-> head.
\* The lines of different heads differ, so the order of $loopPlan.Keys only orders
\* them; the order of the nodes is taken.
SynthBack(r, prefix, pr, k) ==
  IF k > Len(pr.nodes) THEN r
  ELSE LET lp == LoopPlan(pr, pr.nodes[k].id)
           r1 == IF lp.has /\ lp.endId # NullId
                 THEN AddLineUnique(r, pr, EdgeText(DiagId(prefix, lp.endId), "-.->", "",
                                                    DiagId(prefix, pr.nodes[k].id)))
                 ELSE r
       IN SynthBack(r1, prefix, pr, k + 1)

\* Step 6.5 runs only when no exception ended the edge loop.
RenderBackEdges(r, prefix, pr) ==
  IF r.ok THEN BackEdges(r, prefix, ByLevel(pr.loopSpans, MaxLevel(pr.loopSpans))) ELSE r

\* Step 7, likewise.
RenderSynthBack(r, prefix, pr) == IF r.ok THEN SynthBack(r, prefix, pr, 1) ELSE r

\* The text written to <module>_<procedure>.mmd: the node lines, then $lines.
FlowText(prefix, pr, r) ==
  [name |-> pr.name, ok |-> r.ok,
   nodeLines |-> [k \in 1..Len(pr.nodes) |-> NodeLine(prefix, pr.nodes[k])],
   lines |-> r.lines]

\* The body of foreach($p in $doc.procedures) up to the write of the file.
RenderFlow(moduleName, pr) ==
  LET prefix == QName(moduleName, pr.name)
      r0 == [lines |-> <<>>, seen |-> {}, processed |-> {}, condLabels |-> {},
             ok |-> \A k \in 1..Len(pr.nodes) : NodeShape(pr.nodes[k]) # "throws"]
  IN FlowText(prefix, pr,
              RenderSynthBack(RenderBackEdges(RenderEdges(r0, prefix, pr, 1), prefix, pr),
                              prefix, pr))

\* -replace '[^A-Za-z0-9_\.]','_' keeps a qualified or bare procedure name
CgId(q) == q

RECURSIVE RenderCallEdges(_, _)
RenderCallEdges(r, gedges) ==
  IF gedges = <<>> THEN r
  ELSE LET e == Head(gedges)
           ln == IF e.resolved
                 THEN EdgeText(CgId(e.from), "-->", "", CgId(e.to))
                 ELSE EdgeText(CgId(e.from), "-->", "unresolved", CgId(e.to))
       IN RenderCallEdges(AddLineUnique(r, NoNodeMap, ln), Tail(gedges))

\* One procedure's flowchart is drawn and written; an exception ends the converter.
RenderProcedure ==
  /\ pc \in {"written", "rendering"}
  /\ \E out \in {RenderFlow(jsonDoc[1].moduleName, jsonDoc[1].procedures[Len(mmd) + 1])} :
       IF out.ok
       THEN /\ mmd' = Append(mmd, out)
            /\ pc' = IF Len(mmd) + 1 = Len(jsonDoc[1].procedures) THEN "rendered" ELSE "rendering"
       ELSE /\ mmd' = mmd
            /\ pc' = "failed"
  /\ UNCHANGED <<inputVars, importVars, text, mcp, scanVars, ap, body, callsB, procOut, gNodes, gEdges, jsonDoc, callgraphMmd>>

\* The call graph of the document is drawn and written.
RenderCallGraph ==
  /\ pc = "rendered"
  /\ LET cg == jsonDoc[1].callgraph
         r == RenderCallEdges([lines |-> <<>>, seen |-> {}], cg.edges)
     IN callgraphMmd' = <<[nodes |-> {CgId(n) : n \in cg.nodes}, lines |-> r.lines]>>
  /\ pc' = "done"
  /\ UNCHANGED <<inputVars, importVars, text, mcp, scanVars, ap, body, callsB, procOut, gNodes, gEdges, jsonDoc, mmd>>

AnalyzeStep ==
  \/ LineBlank \/ LineLabel \/ LineOneLineIf \/ LineIf \/ LineElseIf \/ LineElse
  \/ LineEndIf \/ LineDo \/ LineLoop \/ LineFor \/ LineNext \/ LineSelectCase
  \/ LineCase \/ LineCaseElse \/ LineEndSelect \/ LineWith \/ LineEndWith \/ LineGoto
  \/ LineExit \/ LineErrRaise \/ LineCall \/ LineOp \/ EndProcedure

Next == NormalizePaths \/ ScanFolder \/ AnalyzeStep \/ WriteJson \/ EditDocument \/ RenderProcedure \/ RenderCallGraph

Spec == Init /\ [][Next]_vars

(***************************************************************************)
(* import_opened_vba.ps1: the files of a folder (or one file) are taken    *)
(* into the VBA projects of the open workbooks.  A project's components    *)
(* are a function name -> type (1 standard module, 2 class module,         *)
(* 3 UserForm, 100 document module; 0: no component of that name).         *)
(***************************************************************************)
MaxBooks == 2
MaxFiles == 2
BookNames == <<"Book1", "Book2", "Book3", "Book4">>
OpenBooks == {BookNames[k] : k \in 1..MaxBooks}
\* The name VBComponents.Add(1) gives a new standard module.
DefaultName == "Module1"
FileNames == {"Mod1", "New1"}
CompNames == FileNames \cup {DefaultName}
NoComponents == [n \in CompNames |-> 0]

\* Projects considered: without component, or with Mod1 as module, form or document.
ProjectClasses == {NoComponents} \cup {[NoComponents EXCEPT !["Mod1"] = t] : t \in {1, 3, 100}}

\* A file to import: base name, extension, name of its parent directory, and
\* whether the .frx of a .frm lies next to it.
ImportFiles ==
  {f \in [base : FileNames, ext : {".bas", ".cls", ".frm"}, dir : OpenBooks,
          frx : BOOLEAN] : f.ext # ".frm" => ~f.frx}

ComponentNames(comps) == {n \in CompNames : comps[n] # 0}

\* The component is reached by the first try block of Import-ModuleToVBProject:
\* the parent directory is the book's name and the name was listed.
ModuleTaken(file, bookName, existingModuleNames) ==
  file.dir = bookName /\ file.base \in existingModuleNames

\* Import-ModuleToVBProject returns $true: the module was added under its name.
\* removed: the first try block went through (Remove, or the overwrite of a
\* document module); added: VBComponents.Add(1) went through.  A component that
\* is still there makes `$newComp.Name = $modName` throw.
ModuleReplaced(comps, file, bookName, existingModuleNames, removed, added) ==
  /\ ModuleTaken(file, bookName, existingModuleNames)
  /\ added
  /\ comps[file.base] = 0 \/ (comps[file.base] # 100 /\ removed)

\* Import-ModuleToVBProject: the components after the call.
ImportModuleToVBProject(comps, file, bookName, existingModuleNames, removed, added) ==
  IF ~ModuleTaken(file, bookName, existingModuleNames) THEN comps
  ELSE IF comps[file.base] = 100 /\ removed THEN comps
  ELSE LET left == IF comps[file.base] \notin {0, 100} /\ removed
                   THEN [comps EXCEPT ![file.base] = 0] ELSE comps
       IN IF ~added THEN left
          ELSE IF left[file.base] = 0 THEN [left EXCEPT ![file.base] = 1]
          ELSE [left EXCEPT ![DefaultName] = 1]

\* Convert-Frm-Utf8-ToSjisTemp throws when the .frx is missing.
ImportFormThrows(file) == ~file.frx

\* Import-FormToVBProject: a component of the name is removed, then the form is
\* imported (imported: VBComponents.Import succeeded).
ImportFormToVBProject(comps, file, imported) ==
  [comps EXCEPT ![file.base] = IF imported THEN 3 ELSE 0]

InitImport ==
  /\ profile = "mixed" /\ numProcs = 1 /\ folderExists = TRUE
  /\ files = [m \in Modules |-> ModuleFile({})]
  /\ folderPath = "FolderPath" /\ symbolTable = <<>>
  /\ keyOrder \in KeyOrders /\ keyOrder[1] = "ModA" /\ keyOrderB = keyOrder
  /\ pc = "off"
  /\ ap = StartAnalyze(FirstHeaderLine, NoLabels)
  /\ body = <<>> /\ callsB = <<>> /\ procOut = <<>> /\ gNodes = {} /\ gEdges = <<>>
  /\ jsonDoc = <<>> /\ mmd = <<>> /\ callgraphMmd = <<>>
  /\ \E n \in 1..MaxBooks :
       workbooks \in {w \in [1..n -> [name : OpenBooks, protected : BOOLEAN,
                                      comps : ProjectClasses, autoSave : BOOLEAN]] :
                        \A k \in 1..n : w[k].name = BookNames[k]}
  /\ booksBefore = workbooks
  /\ \E n \in 0..MaxFiles : targetFiles \in [1..n -> ImportFiles]
  /\ \E found \in BOOLEAN :
       /\ ~found => targetFiles = <<>>
       /\ imp = [pc |-> "autosave", wb |-> 1, file |-> 0, existing |-> {},
                 anySuccess |-> FALSE, dirFound |-> found]
  /\ text = TextIdle
  /\ mcp = McpIdle

\* $originalAutoSave: the setting of every workbook is kept (booksBefore), then
\* switched off.
DisableAutoSave ==
  /\ imp.pc = "autosave"
  /\ workbooks' = [k \in 1..Len(workbooks) |-> [workbooks[k] EXCEPT !.autoSave = FALSE]]
  /\ imp' = [imp EXCEPT !.pc = "book"]
  /\ UNCHANGED <<flowVars, text, mcp, booksBefore, targetFiles>>

\* foreach ($wb in $workbooks): a protected project is passed over
SkipProtected ==
  /\ imp.pc = "book"
  /\ imp.wb <= Len(workbooks)
  /\ workbooks[imp.wb].protected
  /\ imp' = [imp EXCEPT !.wb = @ + 1]
  /\ UNCHANGED <<flowVars, text, mcp, workbooks, booksBefore, targetFiles>>

\* foreach ($wb in $workbooks): $bookDir is not there (removed since the test at
\* the start of the script), the workbook is passed over
SkipMissingDir ==
  /\ imp.pc = "book"
  /\ imp.wb <= Len(workbooks)
  /\ ~workbooks[imp.wb].protected
  /\ ~imp.dirFound
  /\ imp' = [imp EXCEPT !.wb = @ + 1]
  /\ UNCHANGED <<flowVars, text, mcp, workbooks, booksBefore, targetFiles>>

\* the names of the project's components are listed before its files are imported
OpenWorkbook ==
  /\ imp.pc = "book"
  /\ imp.wb <= Len(workbooks)
  /\ ~workbooks[imp.wb].protected
  /\ imp.dirFound
  /\ imp' = [imp EXCEPT !.pc = "files", !.file = 1,
                        !.existing = ComponentNames(workbooks[imp.wb].comps)]
  /\ UNCHANGED <<flowVars, text, mcp, workbooks, booksBefore, targetFiles>>

\* a .bas or .cls file
ImportModule ==
  /\ imp.pc = "files"
  /\ imp.file <= Len(targetFiles)
  /\ targetFiles[imp.file].ext \in {".bas", ".cls"}
  /\ \E removed, added \in BOOLEAN :
       LET file == targetFiles[imp.file]
           wb == workbooks[imp.wb]
           after == ImportModuleToVBProject(wb.comps, file, wb.name, imp.existing,
                                            removed, added)
       IN /\ workbooks' = [workbooks EXCEPT ![imp.wb].comps = after]
          /\ imp' = [imp EXCEPT !.file = @ + 1,
                                !.anySuccess =
                                   @ \/ ModuleReplaced(wb.comps, file, wb.name,
                                                       imp.existing, removed, added)]
  /\ UNCHANGED <<flowVars, text, mcp, booksBefore, targetFiles>>

\* a .frm file
ImportForm ==
  /\ imp.pc = "files"
  /\ imp.file <= Len(targetFiles)
  /\ targetFiles[imp.file].ext = ".frm"
  /\ LET file == targetFiles[imp.file]
     IN IF ImportFormThrows(file)
        THEN /\ imp' = [imp EXCEPT !.pc = "failed"]
             /\ UNCHANGED workbooks
        ELSE \E imported \in BOOLEAN :
               /\ workbooks' = [workbooks EXCEPT ![imp.wb].comps =
                                  ImportFormToVBProject(@, file, imported)]
               /\ imp' = [imp EXCEPT !.file = @ + 1, !.anySuccess = @ \/ imported]
  /\ UNCHANGED <<flowVars, text, mcp, booksBefore, targetFiles>>

\* the files of this workbook are done: its AutoSave setting is put back
NextWorkbook ==
  /\ imp.pc = "files"
  /\ imp.file > Len(targetFiles)
  /\ workbooks' = [workbooks EXCEPT ![imp.wb].autoSave = booksBefore[imp.wb].autoSave]
  /\ imp' = [imp EXCEPT !.pc = "book", !.wb = @ + 1]
  /\ UNCHANGED <<flowVars, text, mcp, booksBefore, targetFiles>>

\* exit 0 or exit 5
FinishImport ==
  /\ imp.pc = "book"
  /\ imp.wb > Len(workbooks)
  /\ imp' = [imp EXCEPT !.pc = "done"]
  /\ UNCHANGED <<flowVars, text, mcp, workbooks, booksBefore, targetFiles>>

NextImport ==
  DisableAutoSave \/ SkipProtected \/ SkipMissingDir \/ OpenWorkbook \/ ImportModule \/ ImportForm \/ NextWorkbook \/ FinishImport

SpecImport == InitImport /\ [][NextImport]_vars

(***************************************************************************)
(* The front end of VBA-FlowJson.ps1: JoinContinuations on the raw lines   *)
(* of the target file, ParseProcedures on the joined lines, StripComments  *)
(* on each body line at the top of the line loop.  A line is a sequence of *)
(* tokens, the units the patterns of the three functions tell apart: a     *)
(* header "Sub A(", a footer "End Sub", the word "Rem", a blank " ", "_",  *)
(* an apostrophe, a double quote and other text "x".                       *)
(***************************************************************************)
MaxRaw == 5
MaxLineLen == 4

Quote == "\""
HeaderTokens == {"Sub A(", "Sub B("}
CodeTokens == {"x", " ", "'", Quote, "Rem"}

\* The lines a file is made of when its structure is looked at.
StructLines ==
  {<<"Sub A(">>, <<"Sub B(">>, <<"End Sub">>, <<"x">>, <<"x", " ", "_">>}

\* The body lines when their text is looked at.
CodeLines == UNION {[1..n -> CodeTokens] : n \in 1..MaxLineLen}

\* Index of the first token from position i on that is no blank, Len + 1 for none.
FirstNonSpace(s, i) ==
  LET hits == {j \in i..Len(s) : s[j] # " "}
  IN IF hits = {} THEN Len(s) + 1 ELSE CHOOSE j \in hits : \A h \in hits : j <= h

\* .TrimEnd()
TrimEnd(s) ==
  LET hits == {j \in 1..Len(s) : s[j] # " "}
  IN IF hits = {} THEN <<>> ELSE SubSeq(s, 1, CHOOSE j \in hits : \A h \in hits : h <= j)

\* A comment marker stands at position i: an apostrophe, or Rem and a blank.
MarkerAt(s, i) ==
  i <= Len(s) /\ (s[i] = "'" \/ (s[i] = "Rem" /\ i < Len(s) /\ s[i + 1] = " "))

\* [regex]::Replace($line, "(?<![""'])(?:'|Rem\s).*", ""): the line is cut at the
\* first marker that does not follow a quote or an apostrophe.
InlineCut(s) ==
  LET hits == {i \in 1..Len(s) : MarkerAt(s, i) /\ (i = 1 \/ s[i - 1] \notin {Quote, "'"})}
  IN IF hits = {} THEN s
     ELSE SubSeq(s, 1, (CHOOSE i \in hits : \A h \in hits : i <= h) - 1)

RECURSIVE CutParts(_, _, _)
\* $parts = $Line -split '(")' and the loop over $parts[0], [2], [4], ...: the
\* quotes are the parts of odd index, so every part between them is cut at its
\* first apostrophe.
CutParts(s, i, cutting) ==
  IF i > Len(s) THEN <<>>
  ELSE IF s[i] = Quote THEN <<Quote>> \o CutParts(s, i + 1, FALSE)
  ELSE IF cutting \/ s[i] = "'" THEN CutParts(s, i + 1, TRUE)
  ELSE <<s[i]>> \o CutParts(s, i + 1, FALSE)

\* StripComments ($line and $Line are one variable)
StripComments(Line) ==
  IF Line = <<>> \/ MarkerAt(Line, FirstNonSpace(Line, 1)) THEN <<>>
  ELSE CutParts(InlineCut(Line), 1, FALSE)

\* The positions of "_" at which  \s+_\s*(?:'.*)?$  matches the trimmed line.
ContinuationAt(trim) ==
  {i \in 2..Len(trim) :
     /\ trim[i] = "_" /\ trim[i - 1] = " "
     /\ LET g == FirstNonSpace(trim, i + 1) IN g > Len(trim) \/ trim[g] = "'"}

\* $trim -replace '\s+_\s*(?:''.*)?$',' ' : the blanks before the first such "_"
\* and all that follows become one blank.
ContinuationHead(trim) ==
  LET i == CHOOSE j \in ContinuationAt(trim) : \A h \in ContinuationAt(trim) : j <= h
      run == {j \in 1..(i - 1) : \A h \in j..(i - 1) : trim[h] = " "}
  IN SubSeq(trim, 1, (CHOOSE j \in run : \A h \in run : j <= h) - 1) \o <<" ">>

RECURSIVE JoinFrom(_, _, _, _)
\* foreach($ln in $Lines) of JoinContinuations with $acc and $buf
JoinFrom(Lines, k, acc, buf) ==
  IF k > Len(Lines) THEN (IF acc # <<>> THEN Append(buf, acc) ELSE buf)
  ELSE LET trim == TrimEnd(Lines[k])
       IN IF ContinuationAt(trim) # {}
          THEN JoinFrom(Lines, k + 1, acc \o ContinuationHead(trim), buf)
          ELSE IF acc # <<>> THEN JoinFrom(Lines, k + 1, <<>>, Append(buf, acc \o trim))
          ELSE JoinFrom(Lines, k + 1, <<>>, Append(buf, Lines[k]))

JoinContinuations(Lines) == JoinFrom(Lines, 1, <<>>, <<>>)

\* $rxHead and $rxEnd
IsHeader(line) ==
  FirstNonSpace(line, 1) <= Len(line) /\ line[FirstNonSpace(line, 1)] \in HeaderTokens

IsFooter(line) ==
  FirstNonSpace(line, 1) <= Len(line) /\ line[FirstNonSpace(line, 1)] = "End Sub"

RECURSIVE ParseFrom(_, _, _, _)
\* for($i=0; ...) of ParseProcedures; i is $i + 1, cur is <<>> when $in is false
ParseFrom(Lines, i, cur, list) ==
  IF i > Len(Lines) THEN list
  ELSE IF cur = <<>> /\ IsHeader(Lines[i])
  THEN ParseFrom(Lines, i + 1,
                 <<[name |-> Lines[i][FirstNonSpace(Lines[i], 1)], startLine |-> i,
                    endLine |-> 0, body |-> <<>>]>>, list)
  ELSE IF cur # <<>> /\ IsFooter(Lines[i])
  THEN ParseFrom(Lines, i + 1, <<>>, Append(list, [cur[1] EXCEPT !.endLine = i]))
  ELSE IF cur # <<>>
  THEN ParseFrom(Lines, i + 1, <<[cur[1] EXCEPT !.body = Append(@, Lines[i])]>>, list)
  ELSE ParseFrom(Lines, i + 1, cur, list)

RECURSIVE ParseFrom_Restart(_, _, _, _)
ParseFrom_Restart(Lines, i, cur, list) ==
  IF i > Len(Lines) THEN list
  ELSE IF IsHeader(Lines[i])
  THEN ParseFrom_Restart(Lines, i + 1,
                         <<[name |-> Lines[i][FirstNonSpace(Lines[i], 1)], startLine |-> i,
                            endLine |-> 0, body |-> <<>>]>>, list)
  ELSE IF cur # <<>> /\ IsFooter(Lines[i])
  THEN ParseFrom_Restart(Lines, i + 1, <<>>, Append(list, [cur[1] EXCEPT !.endLine = i]))
  ELSE IF cur # <<>>
  THEN ParseFrom_Restart(Lines, i + 1, <<[cur[1] EXCEPT !.body = Append(@, Lines[i])]>>, list)
  ELSE ParseFrom_Restart(Lines, i + 1, cur, list)

\* Variant: a header met inside a body starts a new procedure.
ParseProcedures_Restart(Lines) == ParseFrom_Restart(Lines, 1, <<>>, <<>>)

ParseProcedures(Lines) == ParseFrom(Lines, 1, <<>>, <<>>)

\* The files looked at: any file of up to MaxRaw structure lines, and the files of
\* one procedure A with one body line of any text.
RawFiles ==
  UNION {[1..n -> StructLines] : n \in 0..MaxRaw}
    \cup {<<(<<"Sub A(">>), l, (<<"End Sub">>)>> : l \in CodeLines}

InitText ==
  /\ profile = "mixed" /\ numProcs = 1 /\ folderExists = TRUE
  /\ files = [m \in Modules |-> ModuleFile({})]
  /\ folderPath = "FolderPath" /\ symbolTable = <<>>
  /\ keyOrder \in KeyOrders /\ keyOrder[1] = "ModA" /\ keyOrderB = keyOrder
  /\ pc = "off"
  /\ ap = StartAnalyze(FirstHeaderLine, NoLabels)
  /\ body = <<>> /\ callsB = <<>> /\ procOut = <<>> /\ gNodes = {} /\ gEdges = <<>>
  /\ jsonDoc = <<>> /\ mmd = <<>> /\ callgraphMmd = <<>>
  /\ workbooks = <<>> /\ booksBefore = <<>> /\ targetFiles = <<>>
  /\ imp = [pc |-> "off", wb |-> 0, file |-> 0, existing |-> {}, anySuccess |-> FALSE,
           dirFound |-> FALSE]
  /\ \E r \in RawFiles : text = [TextIdle EXCEPT !.pc = "read", !.raw = r]
  /\ mcp = McpIdle

\* $lines = @(JoinContinuations $raw)
JoinLines ==
  /\ text.pc = "read"
  /\ text' = [text EXCEPT !.pc = "joined", !.lines = JoinContinuations(text.raw)]
  /\ UNCHANGED <<flowVars, importVars, mcp>>

\* $procs = @(ParseProcedures -Lines $lines)
SegmentProcedures ==
  /\ text.pc = "joined"
  /\ text' = [text EXCEPT !.pc = "parsed", !.procs = ParseProcedures(text.lines),
                          !.code = [k \in 1..Len(ParseProcedures(text.lines)) |-> <<>>]]
  /\ UNCHANGED <<flowVars, importVars, mcp>>

\* The procedure whose body the line loop is reading, 0 when all are read.
NextToStrip ==
  LET open == {k \in 1..Len(text.procs) : Len(text.code[k]) < Len(text.procs[k].body)}
  IN IF open = {} THEN 0 ELSE CHOOSE k \in open : \A h \in open : k <= h

\* $trim = (StripComments $BodyLines[$i]).Trim() : the text the handlers see
StripLine ==
  /\ text.pc = "parsed"
  /\ NextToStrip # 0
  /\ text' = [text EXCEPT !.code[NextToStrip] =
                Append(@, StripComments(text.procs[NextToStrip].body[Len(@) + 1]))]
  /\ UNCHANGED <<flowVars, importVars, mcp>>

NextText == JoinLines \/ SegmentProcedures \/ StripLine

SpecText == InitText /\ [][NextText]_vars

(***************************************************************************)
(* extension.ts: the MCP server child process and the line-delimited       *)
(* JSON-RPC client.  The extension host runs one handler at a time; an     *)
(* async function gives way at each await, so a command under way is a     *)
(* task with the await it stands at.  A child process is a record: alive   *)
(* (the process runs), exitSeen (its exit event was handled), stdin (the   *)
(* requests written to it), answered (how many of them the server has      *)
(* answered) and out (the response lines in its stdout pipe).  The files   *)
(* startServer looks for are in place and the platform is win32.           *)
(***************************************************************************)
MaxSpawn == 2
MaxCmds == 3
MaxReq == 4

NewProc == [alive |-> TRUE, exitSeen |-> FALSE, stdin |-> <<>>, answered |-> 0, out |-> <<>>]
Task(cmd, at) == [cmd |-> cmd, pc |-> at, wait |-> 0]

DropTask(m, t) ==
  [m EXCEPT !.tasks = SubSeq(@, 1, t - 1) \o SubSeq(@, t + 1, Len(@))]

\* rpcSend: ret is the id of the request written, 0 when the promise is rejected
\* at once ("MCP server not running").
RpcSend(m, method) ==
  IF m.mcpProc = 0 THEN [m EXCEPT !.ret = 0]
  ELSE LET id == m.reqId + 1
       IN [m EXCEPT !.reqId = id, !.pending = @ \cup {id}, !.settled = Append(@, 0),
                    !.procs[m.mcpProc].stdin = Append(@, [id |-> id, method |-> method]),
                    !.ret = id]

\* The task takes up the await of the promise rpcSend returned, or ends with the
\* rejection.
AwaitSent(m, t, at) ==
  IF m.ret = 0 THEN [DropTask(m, t) EXCEPT !.ret = 0]
  ELSE [m EXCEPT !.tasks[t].pc = at, !.tasks[t].wait = m.ret, !.ret = 0]

InitMcp ==
  /\ profile = "mixed" /\ numProcs = 1 /\ folderExists = TRUE
  /\ files = [m \in Modules |-> ModuleFile({})]
  /\ folderPath = "FolderPath" /\ symbolTable = <<>>
  /\ keyOrder \in KeyOrders /\ keyOrder[1] = "ModA" /\ keyOrderB = keyOrder
  /\ pc = "off"
  /\ ap = StartAnalyze(FirstHeaderLine, NoLabels)
  /\ body = <<>> /\ callsB = <<>> /\ procOut = <<>> /\ gNodes = {} /\ gEdges = <<>>
  /\ jsonDoc = <<>> /\ mmd = <<>> /\ callgraphMmd = <<>>
  /\ workbooks = <<>> /\ booksBefore = <<>> /\ targetFiles = <<>>
  /\ imp = [pc |-> "off", wb |-> 0, file |-> 0, existing |-> {}, anySuccess |-> FALSE,
           dirFound |-> FALSE]
  /\ text = TextIdle
  /\ mcp = [McpIdle EXCEPT !.pc = "on"]

CanCommand == mcp.pc = "on" /\ mcp.cmds < MaxCmds

\* vbaMcp.start: startServer up to its first await
CmdStart ==
  /\ CanCommand
  /\ mcp' = IF mcp.mcpProc # 0 THEN [mcp EXCEPT !.cmds = @ + 1]
            ELSE [mcp EXCEPT !.cmds = @ + 1, !.tasks = Append(@, Task("start", "stat1"))]
  /\ UNCHANGED <<flowVars, importVars, text>>

\* vbaMcp.stop and the disposable: stopServer
CmdStop ==
  /\ CanCommand
  /\ mcp' = IF mcp.mcpProc = 0 THEN [mcp EXCEPT !.cmds = @ + 1]
            ELSE [mcp EXCEPT !.cmds = @ + 1, !.procs[mcp.mcpProc].alive = FALSE,
                             !.mcpProc = 0]
  /\ UNCHANGED <<flowVars, importVars, text>>

\* vbaMcp.searchCode / vbaMcp.listAndRunMacro: ensureServer, up to the first
\* await of startServer or, with a server at hand, of the command's input box
CmdTool ==
  /\ CanCommand
  /\ mcp' = [mcp EXCEPT !.cmds = @ + 1,
                        !.tasks = Append(@, Task("tool", IF mcp.mcpProc = 0 THEN "stat1"
                                                         ELSE "input"))]
  /\ UNCHANGED <<flowVars, importVars, text>>

\* startServer: fs.stat of server.js has answered
StatServerJs(t) ==
  /\ mcp.pc = "on"
  /\ mcp.tasks[t].pc = "stat1"
  /\ mcp' = [mcp EXCEPT !.tasks[t].pc = "stat2"]
  /\ UNCHANGED <<flowVars, importVars, text>>

\* startServer: fs.stat of the .ps1 has answered; spawn, the handlers are attached,
\* rpcSend("initialize")
Spawn(t) ==
  /\ mcp.pc = "on"
  /\ mcp.tasks[t].pc = "stat2"
  /\ Len(mcp.procs) < MaxSpawn
  /\ mcp.reqId < MaxReq
  /\ LET m1 == [mcp EXCEPT !.procs = Append(@, NewProc), !.mcpProc = Len(mcp.procs) + 1]
     IN mcp' = AwaitSent(RpcSend(m1, "initialize"), t, "init")
  /\ UNCHANGED <<flowVars, importVars, text>>

\* the promise the task awaits was resolved: startServer goes on to tools/list,
\* then returns; the command goes on to its input box; callTool returns
Resume(t) ==
  /\ mcp.pc = "on"
  /\ mcp.tasks[t].pc \in {"init", "list", "call"}
  /\ mcp.settled[mcp.tasks[t].wait] > 0
  /\ mcp.tasks[t].pc = "init" => mcp.reqId < MaxReq
  /\ mcp' = CASE mcp.tasks[t].pc = "init" -> AwaitSent(RpcSend(mcp, "tools/list"), t, "list")
              [] mcp.tasks[t].pc = "list" /\ mcp.tasks[t].cmd = "tool" ->
                   [mcp EXCEPT !.tasks[t].pc = "input", !.tasks[t].wait = 0]
              [] OTHER -> DropTask(mcp, t)
  /\ UNCHANGED <<flowVars, importVars, text>>

\* showInputBox has answered: without a text the command ends, with one it goes
\* on to callTool
Input(t) ==
  /\ mcp.pc = "on"
  /\ mcp.tasks[t].pc = "input"
  /\ mcp.reqId < MaxReq
  /\ \E entered \in BOOLEAN :
       mcp' = IF entered THEN AwaitSent(RpcSend(mcp, "tools/call"), t, "call")
              ELSE DropTask(mcp, t)
  /\ UNCHANGED <<flowVars, importVars, text>>

\* the server answers the next request on its stdin with one line
Respond(p) ==
  /\ mcp.pc = "on"
  /\ mcp.procs[p].alive
  /\ mcp.procs[p].answered < Len(mcp.procs[p].stdin)
  /\ mcp' = [mcp EXCEPT !.procs[p].answered = @ + 1,
                        !.procs[p].out = Append(@, mcp.procs[p].stdin[mcp.procs[p].answered + 1].id)]
  /\ UNCHANGED <<flowVars, importVars, text>>

\* stdout "data": the next response line arrives whole in one chunk, or cut in two
\* chunks, neither of which JSON.parse takes
Deliver(p) ==
  /\ mcp.pc = "on"
  /\ mcp.procs[p].out # <<>>
  /\ \E whole \in BOOLEAN :
       LET id == Head(mcp.procs[p].out)
           m1 == [mcp EXCEPT !.procs[p].out = Tail(@)]
       IN mcp' = IF whole /\ id \in mcp.pending
                 THEN [m1 EXCEPT !.pending = @ \ {id}, !.settled[id] = @ + 1]
                 ELSE m1
  /\ UNCHANGED <<flowVars, importVars, text>>

\* the server process ends by itself
Crash(p) ==
  /\ mcp.pc = "on"
  /\ mcp.procs[p].alive
  /\ mcp' = [mcp EXCEPT !.procs[p].alive = FALSE]
  /\ UNCHANGED <<flowVars, importVars, text>>

\* the "exit" handler of process p
ExitEvent(p) ==
  /\ mcp.pc = "on"
  /\ ~mcp.procs[p].alive
  /\ ~mcp.procs[p].exitSeen
  /\ mcp' = [mcp EXCEPT !.procs[p].exitSeen = TRUE, !.mcpProc = 0]
  /\ UNCHANGED <<flowVars, importVars, text>>

TaskStep == \E t \in 1..Len(mcp.tasks) : StatServerJs(t) \/ Spawn(t) \/ Resume(t) \/ Input(t)
ProcStep == \E p \in 1..Len(mcp.procs) : Respond(p) \/ Deliver(p) \/ Crash(p) \/ ExitEvent(p)

NextMcp == CmdStart \/ CmdStop \/ CmdTool \/ TaskStep \/ ProcStep

SpecMcp == InitMcp /\ [][NextMcp]_vars

\* The event loop runs every continuation that is ready and every event that has
\* arrived; the server answers what it has read.  Nothing is asked of the user
\* or of the server's own end.
FairMcp ==
  /\ \A t \in 1..MaxCmds : WF_vars(t <= Len(mcp.tasks) /\ (StatServerJs(t) \/ Spawn(t) \/ Resume(t)))
  /\ \A p \in 1..MaxSpawn : WF_vars(p <= Len(mcp.procs) /\ (Respond(p) \/ Deliver(p) \/ ExitEvent(p)))

SpecMcpFair == SpecMcp /\ FairMcp

(***************************************************************************)
(* Properties.  A finished procedure is an element of procOut; its first   *)
(* node is the start node and its last node the final end node.            *)
(***************************************************************************)
Finished == {procOut[k] : k \in 1..Len(procOut)}

EdgesInto(p, id) == {k \in 1..Len(p.edges) : p.edges[k].to = id}
EdgesOutOf(p, id) == {k \in 1..Len(p.edges) : p.edges[k].from = id}
StartOf(p) == p.nodes[1]
FinalEndOf(p) == p.nodes[Len(p.nodes)]

\* C1: in every finished procedure no edge of any label targets the id of the start
\* node, the start node has at least one outgoing edge, and for an empty body its
\* only outgoing edge goes to the final end node.
C1_StartDegrees ==
  \A p \in Finished :
    /\ EdgesInto(p, StartOf(p).id) = {}
    /\ EdgesOutOf(p, StartOf(p).id) # {}
    /\ p.body = <<>> =>
         /\ Cardinality(EdgesOutOf(p, StartOf(p).id)) = 1
         /\ \A k \in EdgesOutOf(p, StartOf(p).id) : p.edges[k].to = FinalEndOf(p).id

NodeIxs(p) == 1..Len(p.nodes)

AddedAfterExit(p, k) == p.prevAt[k] = NullId

\* The node is an op or call node added right after the condition of an If frame that
\* already had its Else (an ElseIf written after the Else of its If block).
AddedAfterLateElseIf(p, k) ==
  /\ p.nodes[k].type \in {"op", "call"}
  /\ p.topAt[k].kind = "If"
  /\ p.topAt[k].hasElse
  /\ p.prevAt[k] = p.topAt[k].head

CondIxs(p) == {k \in NodeIxs(p) : p.nodes[k].type = "cond"}

\* C3: in every finished procedure every edge that leaves a cond node is labelled
\* "Yes" or "No".
C3_CondLabels ==
  \A p \in Finished : \A k \in CondIxs(p) : \A e \in EdgesOutOf(p, p.nodes[k].id) :
     p.edges[e].label \in {"Yes", "No"}

\* Scenario A: the body is an If block with one statement in each arm.
ScenarioA ==
  <<Ln("If", ""), Ln("Op", ""), Ln("Else", ""), Ln("Op", ""), Ln("EndIf", "")>>

Types(p) == [k \in NodeIxs(p) |-> p.nodes[k].type]
Texts(p) == [k \in NodeIxs(p) |-> p.nodes[k].text]
EdgeSet(p) == {p.edges[k] : k \in 1..Len(p.edges)}
E(from, label, to) == [from |-> from.id, to |-> to.id, label |-> label]

SpanIxs(p) == 1..Len(p.loopSpans)
IxsOfId(p, id) == {k \in NodeIxs(p) : p.nodes[k].id = id}
IxsOfType(p, type) == {k \in NodeIxs(p) : p.nodes[k].type = type}
LinesOfKind(p, kinds) == {i \in 1..Len(p.body) : p.body[i].k \in kinds}
\* the body line a node line number belongs to
BodyIx(p, line) == line - p.startLine + 1

RECURSIVE Nested(_, _, _)
\* The loops of the body from line i on are properly nested and closed, open being
\* the headers still open; a body with a block If is not considered.
Nested(bd, i, open) ==
  IF i > Len(bd) THEN open = <<>>
  ELSE CASE bd[i].k \in {"Do", "For"} -> Nested(bd, i + 1, <<bd[i].k>> \o open)
         [] bd[i].k = "Loop" -> open # <<>> /\ Head(open) = "Do" /\ Nested(bd, i + 1, Tail(open))
         [] bd[i].k = "Next" -> open # <<>> /\ Head(open) = "For" /\ Nested(bd, i + 1, Tail(open))
         [] bd[i].k = "If" -> FALSE
         [] OTHER -> Nested(bd, i + 1, open)

\* C5: in every finished procedure each span names, by headId and endId, exactly one
\* loop node and exactly one loopEnd node of the same kind of loop, its start and
\* end are the lines of these nodes, which are a header line and a later terminator
\* line of the body; two spans share no head and no end; there is one loop node per
\* header line and one loopEnd node per span, so a header without terminator has a
\* loop node and no span; when the loops of the body are properly nested there is a
\* span for every header.
C5_LoopSpans ==
  \A p \in Finished :
    /\ \A i \in SpanIxs(p) :
         LET sp == p.loopSpans[i]
             hs == IxsOfId(p, PrependN(sp.headId))
             es == IxsOfId(p, PrependN(sp.endId))
         IN /\ Cardinality(hs) = 1
            /\ Cardinality(es) = 1
            /\ \A h \in hs : \A e \in es :
                 /\ p.nodes[h].type = "loop" /\ p.nodes[h].line = sp.start
                 /\ p.nodes[e].type = "loopEnd" /\ p.nodes[e].line = sp.end
                 /\ h < e
                 /\ sp.start <= sp.end
                 /\ BodyIx(p, sp.start) \in LinesOfKind(p, {"Do", "For"})
                 /\ BodyIx(p, sp.end) \in LinesOfKind(p, {"Loop", "Next"})
                 /\ p.body[BodyIx(p, sp.start)].k = "Do" <=> p.body[BodyIx(p, sp.end)].k = "Loop"
    /\ \A i, j \in SpanIxs(p) :
         i # j => /\ p.loopSpans[i].headId # p.loopSpans[j].headId
                  /\ p.loopSpans[i].endId # p.loopSpans[j].endId
    /\ Cardinality(IxsOfType(p, "loop")) = Cardinality(LinesOfKind(p, {"Do", "For"}))
    /\ Cardinality(IxsOfType(p, "loopEnd")) = Len(p.loopSpans)
    /\ profile = "loop" /\ Nested(p.body, 1, <<>>) =>
         Len(p.loopSpans) = Cardinality(LinesOfKind(p, {"Do", "For"}))

\* C5 witness: a finished procedure with a Do...Loop around a For...Next, both with a
\* span.
C5_Witness ==
  \E p \in Finished :
     /\ Len(p.loopSpans) = 2
     /\ p.body[1].k = "Do" /\ p.body[2].k = "For" /\ p.body[3].k = "Next"
     /\ p.body[4].k = "Loop"

\* A header without terminator: a loop node that heads no span, next to a span.
C5_WitnessOpen ==
  \E p \in Finished : \E k \in IxsOfType(p, "loop") :
     /\ p.loopSpans # <<>>
     /\ \A i \in SpanIxs(p) : PrependN(p.loopSpans[i].headId) # p.nodes[k].id

\* The diagrams written so far, each with the procedure of the document it draws.
Drawn == {[p |-> jsonDoc[1].procedures[k], m |-> mmd[k]] : k \in 1..Len(mmd)}

\* The diagrams written so far of the document the Builder wrote.
Rendered == IF IsBuilderDocument THEN Drawn ELSE {}

Dashed(m) == {i \in 1..Len(m.lines) : m.lines[i].arrow = "-.->"}

\* The node ids at the two ends of a line of the diagram of procedure p, read back:
\* the line runs between the diagram ids of two nodes of p, and the ids without
\* their leading n are the pair of a span.
ReadBack(p, ln) == [headId |-> StripN(ln.to.id), endId |-> StripN(ln.from.id)]

IsBackEdgeOf(p, ln, sp) ==
  /\ ln.arrow = "-.->"
  /\ \E h \in IxsOfType(p, "loop") : \E e \in IxsOfType(p, "loopEnd") :
       /\ ln.from = DiagId(QName(ThisModuleName, p.name), p.nodes[e].id)
       /\ ln.to = DiagId(QName(ThisModuleName, p.name), p.nodes[h].id)
  /\ ReadBack(p, ln).headId = sp.headId
  /\ ReadBack(p, ln).endId = sp.endId

\* C6: in every diagram written, each span of the procedure has exactly one dashed
\* line, from the diagram id of its loopEnd node to the diagram id of its loop node,
\* whose ends read back give the span's (headId, endId); and every dashed line is
\* the back-edge of a span.
C6_BackEdges ==
  \A r \in Rendered :
    /\ \A i \in SpanIxs(r.p) :
         Cardinality({d \in Dashed(r.m) : IsBackEdgeOf(r.p, r.m.lines[d], r.p.loopSpans[i])}) = 1
    /\ \A d \in Dashed(r.m) :
         \E i \in SpanIxs(r.p) : IsBackEdgeOf(r.p, r.m.lines[d], r.p.loopSpans[i])

\* C6 witness: the diagram of a procedure with two nested loops has been written
\* with two dashed lines.
C6_Witness ==
  \E r \in Rendered :
     /\ Len(r.p.loopSpans) = 2
     /\ r.p.loopSpans[1].level = 1 /\ r.p.loopSpans[2].level = 0
     /\ Cardinality(Dashed(r.m)) = 2

\* The procedure starts with a Do While / Do Until loop whose first body line is a
\* plain statement and which is closed by a Loop line.
StartsWithDo(p, a) ==
  /\ Len(p.body) >= 3
  /\ p.body[1] = Ln("Do", a)
  /\ p.body[2] = Ln("Op", "")
  /\ \E i \in 3..Len(p.body) : p.body[i].k = "Loop"

LinesBetween(r, from, to) ==
  {i \in 1..Len(r.m.lines) :
     /\ r.m.lines[i].from = DiagId(QName(ThisModuleName, r.p.name), from.id)
     /\ r.m.lines[i].to = DiagId(QName(ThisModuleName, r.p.name), to.id)}

\* C7: in the diagram of a procedure that starts with Do While c (Do Until c), a
\* statement and later Loop, the line from the loop header to the first body
\* statement is there and carries the label "Yes" ("No").
C7_ContinueLabel ==
  \A r \in Rendered : \A a \in {"While", "Until"} :
     StartsWithDo(r.p, a) =>
       /\ LinesBetween(r, r.p.nodes[2], r.p.nodes[3]) # {}
       /\ \A i \in LinesBetween(r, r.p.nodes[2], r.p.nodes[3]) :
            r.m.lines[i].label = IF a = "While" THEN "Yes" ELSE "No"

\* No module of the symbol table declares Foo.
NobodyDeclaresFoo == symbolTable # <<>> /\ \A m \in Modules : "Foo" \notin symbolTable[1][m]

BareFooLines(p) == {i \in 1..Len(p.body) : p.body[i] = Ln("Call", "Foo()")}
CallsOfLine(p, i) == {k \in 1..Len(p.calls) : p.calls[k].line = p.startLine + i - 1}
UnresolvedFooLine(p) ==
  [from |-> CgId(QName(ThisModuleName, p.name)), to |-> CgId(QName("", "Foo")),
   label |-> "unresolved", arrow |-> "-->", semi |-> TRUE]

\* C8: when no module declares Foo, a line Foo() of a finished procedure has one call
\* site, with the bare target Foo and resolved = FALSE, and a call node; the lines
\* after it have their nodes; the run on the Builder's document never fails, the analysis of a procedure can
\* always end, all procedures are analysed and drawn, and the call graph written
\* has, once, the line from module.procedure to Foo annotated "unresolved".
C8_UnresolvedCall ==
  NobodyDeclaresFoo =>
    /\ IsBuilderDocument => pc # "failed"
    /\ profile = "calls" /\ pc = "analyze" => ENABLED EndProcedure
    /\ pc # "analyze" => Len(procOut) = numProcs
    /\ pc \in {"rendered", "done"} => Len(mmd) = numProcs
    /\ \A p \in Finished : \A i \in BareFooLines(p) :
         /\ Cardinality(CallsOfLine(p, i)) = 1
         /\ \A k \in CallsOfLine(p, i) :
              p.calls[k] = [target |-> QName("", "Foo"), resolved |-> FALSE,
                            line |-> p.startLine + i - 1]
         /\ \E n \in IxsOfType(p, "call") : p.nodes[n].line = p.startLine + i - 1
         /\ \A j \in (i + 1)..Len(p.body) :
              p.body[j].k \in {"Call", "Op"} =>
                \E n \in NodeIxs(p) \ {1} : p.nodes[n].line = p.startLine + j - 1
         /\ [from |-> QName(ThisModuleName, p.name), to |-> QName("", "Foo"),
             resolved |-> FALSE] \in {gEdges[k] : k \in 1..Len(gEdges)}
         /\ pc = "done" =>
              Cardinality({k \in 1..Len(callgraphMmd[1].lines) :
                             callgraphMmd[1].lines[k] = UnresolvedFooLine(p)}) = 1

\* C8 witness: the run is done; its first procedure had the line Foo(), undeclared,
\* followed by another line, and a second procedure was analysed after it.
C8_Witness ==
  /\ NobodyDeclaresFoo
  /\ pc = "done"
  /\ Len(procOut) = 2
  /\ procOut[1].body = <<Ln("Call", "Foo()"), Ln("Op", "")>>
  /\ procOut[2].body # <<>>
  /\ UnresolvedFooLine(procOut[1]) \in {callgraphMmd[1].lines[k] : k \in 1..Len(callgraphMmd[1].lines)}

IxOfId(p, id) == CHOOSE k \in NodeIxs(p) : p.nodes[k].id = id
HasEdge(p, from, to) == \E k \in 1..Len(p.edges) : p.edges[k].from = from /\ p.edges[k].to = to

\* Line i of the body lies in a Select Case block: the nearest Select Case or End
\* Select line before it is a Select Case, and no Loop or End With stands between.
InSelectBlock(p, i) ==
  \E j \in 1..(i - 1) :
     /\ p.body[j].k = "Select"
     /\ \A h \in (j + 1)..(i - 1) : p.body[h].k \notin {"Select", "EndSelect", "Loop", "EndWith"}

\* The case nodes of the switch with id s, and the joins added for it.
CasesOf(p, s) == {k \in IxsOfType(p, "case") : HasEdge(p, s, p.nodes[k].id)}
JoinsOf(p, s) ==
  {IxOfId(p, p.selJoins[i].join) : i \in {h \in 1..Len(p.selJoins) : p.selJoins[h].head = s}}

\* The node that closes the branch of case node k of switch s: the next case node
\* of s or join of s, whichever is added first (0: none).
CloserOf(p, s, k) ==
  LET later == {c \in CasesOf(p, s) \cup JoinsOf(p, s) : c > k}
  IN IF later = {} THEN 0 ELSE CHOOSE c \in later : \A d \in later : c <= d

\* The join the branch of case node k of switch s runs to (0: none).
JoinAfter(p, s, k) ==
  LET later == {c \in JoinsOf(p, s) : c > k}
  IN IF later = {} THEN 0 ELSE CHOOSE c \in later : \A d \in later : c <= d

C10_Deterministic == \A p \in Finished : p.calls = p.callsB

\* The nodes of the same line added before node k of a node list.
EarlierOfLine(nodes, k) == {j \in 1..(k - 1) : nodes[j].line = nodes[k].line}

IdsWellFormed(nodes) ==
  /\ \A j, k \in 1..Len(nodes) : j # k => nodes[j].id # nodes[k].id
  /\ \A k \in 1..Len(nodes) :
       /\ nodes[k].id.n = 1
       /\ nodes[k].id.line = nodes[k].line
       /\ nodes[k].id.idx = 1 + Cardinality(EarlierOfLine(nodes, k))

\* C11: at every point of the analysis and in every finished procedure the node ids
\* are pairwise distinct, each id is n<line> of the node's line, and it carries the
\* suffix _k, k >= 2, exactly when earlier nodes of the procedure have the same line
\* (k - 1 of them).
C11_UniqueIds ==
  /\ pc = "analyze" => IdsWellFormed(ap.nodes)
  /\ \A p \in Finished : IdsWellFormed(p.nodes)

\* C11 witness: a finished procedure with three nodes of one line (a one-line If),
\* the third with suffix _3.
C11_Witness ==
  \E p \in Finished : \E k \in NodeIxs(p) :
     p.nodes[k].id.idx = 3 /\ Cardinality(EarlierOfLine(p.nodes, k)) = 2

\* C12: the Builder's document exists only once every procedure has been analysed, and
\* a run of the converter that has failed has left no diagram file.
C12_AllOrNothing ==
  /\ jsonDoc # <<>> => Len(procOut) = numProcs
  /\ pc = "failed" => mmd = <<>> /\ callgraphMmd = <<>>

\* C13: when the directory given as $FolderPath does not exist, the run does not get
\* past the scan: no symbol table is built, from no other directory, and no document
\* is written.
C13_DirectoryNotFound ==
  ~folderExists =>
    /\ pc \in {"start", "scan", "failed"}
    /\ folderPath = "FolderPath"
    /\ symbolTable = <<>>
    /\ jsonDoc = <<>>

BadFiles == {m \in Modules : files[m].kind # "ok"}

\* C14: when exactly one module file of the directory cannot be read or has no line,
\* the scan, once over, has built the table in which that module has the empty set
\* and every other module the names its file declares.
C14_BadFileSkipped ==
  Cardinality(BadFiles) = 1 /\ pc \notin {"start", "scan"} =>
    symbolTable = <<[m \in Modules |-> IF m \in BadFiles THEN {} ELSE files[m].decls]>>

\* C15: throughout an import run, and at its end, the component names of every
\* workbook are among the names the workbook had before the run.
C15_NoNewComponent ==
  \A k \in 1..Len(workbooks) :
     ComponentNames(workbooks[k].comps) \subseteq ComponentNames(booksBefore[k].comps)

RECURSIVE CallsBefore(_)
\* The number of call records of the procedures analysed before the k-th.
CallsBefore(k) == IF k <= 1 THEN 0 ELSE CallsBefore(k - 1) + Len(procOut[k - 1].calls)

\* C16: the call graph edges are, in order, one per call record of the procedures
\* analysed so far: from module.procedure to the record's target, with its resolved
\* flag; the document written holds these edges.
C16_EdgePerCallSite ==
  /\ Len(gEdges) = CallsBefore(Len(procOut) + 1)
  /\ \A k \in 1..Len(procOut) : \A i \in 1..Len(procOut[k].calls) :
       gEdges[CallsBefore(k) + i] =
         [from |-> QName(ThisModuleName, procOut[k].name),
          to |-> procOut[k].calls[i].target,
          resolved |-> procOut[k].calls[i].resolved]
  /\ IsBuilderDocument => jsonDoc[1].callgraph.edges = gEdges

\* C16 witness: a document is written whose call graph has two edges with the same
\* from and to, of two call records of one procedure.
C16_Witness ==
  /\ IsBuilderDocument
  /\ \E i, j \in 1..Len(gEdges) :
       i < j /\ gEdges[i].from = gEdges[j].from /\ gEdges[i].to = gEdges[j].to

\* The diagram id of node id in the diagram of procedure p.
DiagIdOf(p, id) == DiagId(QName(ThisModuleName, p.name), id)

NodeLinesOf(r, id) ==
  {i \in 1..Len(r.m.nodeLines) : r.m.nodeLines[i].id = DiagIdOf(r.p, id)}

SameTriple(l1, l2) == l1.from = l2.from /\ l1.label = l2.label /\ l1.to = l2.to

\* C17: in every diagram written, of the Builder's document or of a changed one, each
\* node of the document has exactly one node line, and no two edge lines, solid or
\* dashed, have the same from, label and to.
C17_RenderedOnce ==
  \A r \in Drawn :
    /\ \A k \in 1..Len(r.p.nodes) : Cardinality(NodeLinesOf(r, r.p.nodes[k].id)) = 1
    /\ \A i, j \in 1..Len(r.m.lines) :
         i # j => ~SameTriple(r.m.lines[i], r.m.lines[j])

\* The span names an id that no node of the procedure has.
IsBadSpan(pr, span) ==
  ~HasNode(pr, PrependN(span.headId)) \/ ~HasNode(pr, PrependN(span.endId))

NodeLineIds(r) == {r.m.nodeLines[i].id : i \in 1..Len(r.m.nodeLines)}

IsDashedLineOf(r, ln, span) ==
  /\ ln.arrow = "-.->"
  /\ ln.from = DiagIdOf(r.p, PrependN(span.endId))
  /\ ln.to = DiagIdOf(r.p, PrependN(span.headId))

\* C18: a span of the document that names a head or end id no node has makes the
\* converter neither fail nor draw a back-edge for it, and every dashed back-edge of
\* a written diagram runs between two ids that have a node line.
C18_BadSpanSkipped ==
  /\ (jsonDoc # <<>> /\ \E j \in 1..Len(jsonDoc[1].procedures) :
                          \E k \in 1..Len(jsonDoc[1].procedures[j].loopSpans) :
                            IsBadSpan(jsonDoc[1].procedures[j],
                                      jsonDoc[1].procedures[j].loopSpans[k]))
       => pc # "failed"
  /\ \A r \in Drawn :
       /\ \A k \in 1..Len(r.p.loopSpans) :
            IsBadSpan(r.p, r.p.loopSpans[k])
              => \A i \in 1..Len(r.m.lines) : ~IsDashedLineOf(r, r.m.lines[i], r.p.loopSpans[k])
       /\ \A i \in 1..Len(r.m.lines) :
            r.m.lines[i].arrow = "-.->"
              => r.m.lines[i].from \in NodeLineIds(r) /\ r.m.lines[i].to \in NodeLineIds(r)

\* The body lines of p that declare label l.
LabelLines(p, l) == {j \in 1..Len(p.body) : p.body[j] = Ln("Label", l)}

\* The nodes of type goto made for body line i of p.
GotoNodes(p, i) == {n \in IxsOfType(p, "goto") : p.nodes[n].line = p.startLine + i - 1}

\* C19: in every finished procedure, each Goto line whose label is declared in the
\* body, before or after it, has a goto node with an edge labelled "goto" to a node
\* of type label.
C19_GotoEdge ==
  \A p \in Finished : \A i \in 1..Len(p.body) : \A l \in LabelNames :
    (p.body[i] = Ln("Goto", l) /\ LabelLines(p, l) # {})
      => \E g \in GotoNodes(p, i) : \E t \in IxsOfType(p, "label") :
           \E k \in 1..Len(p.edges) :
             /\ p.edges[k].from = p.nodes[g].id
             /\ p.edges[k].to = p.nodes[t].id
             /\ p.edges[k].label = "goto"

\* The nodes made for body line i of p (the start node carries the line of the
\* header and is none of them).
NodesAt(p, i) == {n \in NodeIxs(p) \ {1} : p.nodes[n].line = p.startLine + i - 1}

\* C20: in every finished procedure each label declaration has a node of type label
\* on its line; no node of the line before it has an edge to the label node or to a
\* node of the line after it, and a node of the line after it has an edge from the
\* label node.
C20_LabelChain ==
  \A p \in Finished : \A l \in LabelNames : \A j \in LabelLines(p, l) :
    \E t \in IxsOfType(p, "label") \cap NodesAt(p, j) :
      /\ j > 1 => \A n \in NodesAt(p, j - 1) :
                    /\ ~HasEdge(p, p.nodes[n].id, p.nodes[t].id)
                    /\ j < Len(p.body)
                         => \A m \in NodesAt(p, j + 1) : ~HasEdge(p, p.nodes[n].id, p.nodes[m].id)
      /\ (j < Len(p.body) /\ NodesAt(p, j + 1) # {})
           => \E m \in NodesAt(p, j + 1) : HasEdge(p, p.nodes[t].id, p.nodes[m].id)

\* C21: in every finished procedure, a plain statement or a call on the line after
\* an Exit, Return or Err.Raise line has no incoming edge, whatever frames are open.
C21_DeadCodeUnconnected ==
  \A p \in Finished : \A i \in 2..Len(p.body) :
    (p.body[i - 1].k \in {"Exit", "Raise"} /\ p.body[i].k \in {"Op", "Call"})
      => \A n \in NodesAt(p, i) : EdgesInto(p, p.nodes[n].id) = {}

LabelledEdge(p, from, to, label) ==
  \E k \in 1..Len(p.edges) :
    p.edges[k].from = from /\ p.edges[k].to = to /\ p.edges[k].label = label

\* C22: in every finished procedure a one-line If has, on its line, a cond node, a
\* node for its statement reached from the cond by "Yes" and a join reached from the
\* cond by "No"; the statement node has an edge to the join exactly when it is not an
\* Exit or Return, and a plain statement on the next line is chained from the join.
C22_OneLineIf ==
  \A p \in Finished : \A i \in 1..Len(p.body) :
    p.body[i].k = "If1"
      => \E c, s, j \in NodesAt(p, i) :
           /\ p.nodes[c].type = "cond"
           /\ p.nodes[s].type = (IF p.body[i].a = "exit" THEN "end" ELSE "op")
           /\ p.nodes[j].type = "join"
           /\ LabelledEdge(p, p.nodes[c].id, p.nodes[s].id, "Yes")
           /\ LabelledEdge(p, p.nodes[c].id, p.nodes[j].id, "No")
           /\ HasEdge(p, p.nodes[s].id, p.nodes[j].id) <=> p.body[i].a # "exit"
           /\ (i < Len(p.body) /\ p.body[i + 1].k = "Op")
                => \E m \in NodesAt(p, i + 1) : HasEdge(p, p.nodes[j].id, p.nodes[m].id)

\* The terminator kind of a loop header kind.
TerminatorOf(hk) == IF hk = "Do" THEN "Loop" ELSE "Next"

RECURSIVE OpenHeaders(_, _, _)
\* The body indices of the headers of kind hk among lines 1..n that no terminator of
\* their own kind has matched, innermost last.
OpenHeaders(lines, n, hk) ==
  IF n = 0 THEN <<>>
  ELSE LET s == OpenHeaders(lines, n - 1, hk)
       IN IF lines[n].k = hk THEN Append(s, n)
          ELSE IF lines[n].k = TerminatorOf(hk) /\ s # <<>> THEN SubSeq(s, 1, Len(s) - 1)
          ELSE s

SpanOfLines(p, h, e) ==
  \E k \in 1..Len(p.loopSpans) :
    /\ p.loopSpans[k].start = p.startLine + h - 1
    /\ p.loopSpans[k].end = p.startLine + e - 1

\* C23: in every finished procedure a Loop (Next) line met while a Do (For) header
\* is unmatched has a span that pairs it with the nearest such header, whatever was
\* opened in between, and no span pairs a Do with a Next or a For with a Loop.
C23_NearestSameKind ==
  \A p \in Finished :
    /\ \A i \in 1..Len(p.body) : \A hk \in {"Do", "For"} :
         (p.body[i].k = TerminatorOf(hk) /\ OpenHeaders(p.body, i - 1, hk) # <<>>)
           => SpanOfLines(p, OpenHeaders(p.body, i - 1, hk)[Len(OpenHeaders(p.body, i - 1, hk))], i)
    /\ \A h, e \in 1..Len(p.body) : \A hk \in {"Do", "For"} :
         (SpanOfLines(p, h, e) /\ p.body[h].k = hk) => p.body[e].k = TerminatorOf(hk)

\* The frame kind a block terminator closes.
HeaderKindOf(k) ==
  CASE k = "Loop" -> "Do" [] k = "Next" -> "For" [] k = "EndIf" -> "If"
    [] k = "EndSelect" -> "Select" [] OTHER -> "With"

\* The line loop reads a block terminator while no frame of its kind is open.
StrayTerminatorRead ==
  /\ pc = "analyze"
  /\ Len(body') = Len(body) + 1
  /\ body'[Len(body')].k \in {"Loop", "Next", "EndIf", "EndSelect", "EndWith"}
  /\ NearestPos(ap, HeaderKindOf(body'[Len(body')].k)) = 0

\* C24: a step of the line loop that reads a block terminator while no header of its
\* kind is open leaves the construct stack as it was.
C24_StackKept == [][StrayTerminatorRead => ap'.stack = ap.stack]_vars

\* The call record the resolution rule allows for hit h on a line.
IsResolutionOf(rec, h, table) ==
  IF h.module # ""
  THEN /\ rec.target = QName(h.module, h.name)
       /\ rec.resolved <=> (h.module \in DOMAIN table /\ h.name \in table[h.module])
  ELSE IF ThisModuleName \in DOMAIN table /\ h.name \in table[ThisModuleName]
       THEN rec.target = QName(ThisModuleName, h.name) /\ rec.resolved
       ELSE IF \E m \in DOMAIN table : h.name \in table[m]
            THEN \E m \in DOMAIN table :
                   h.name \in table[m] /\ rec.target = QName(m, h.name) /\ rec.resolved
            ELSE rec.target = QName("", h.name) /\ ~rec.resolved

\* The j-th call record of body line i of p.
CallOfLine(p, i, j) ==
  p.calls[(CHOOSE k \in CallsOfLine(p, i) : \A h \in CallsOfLine(p, i) : k <= h) + j - 1]

\* C25: in every finished procedure a call line has one record per call found on
\* it, in order, and each record follows the rule: a qualified call M.P has target
\* M.P and is resolved exactly when M's entry holds P; an unqualified P has target
\* currentModule.P when the current module declares P, else M.P (resolved) for a
\* module M that declares P, else the bare name P, unresolved.
C25_Resolution ==
  symbolTable # <<>> =>
    \A p \in Finished : \A i \in 1..Len(p.body) :
      p.body[i].k = "Call" =>
        /\ Cardinality(CallsOfLine(p, i)) = Len(Hits(p.body[i].a))
        /\ \A j \in 1..Len(Hits(p.body[i].a)) :
             IsResolutionOf(CallOfLine(p, i, j), Hits(p.body[i].a)[j], symbolTable[1])

\* C25 witness: a finished procedure with the lines Foo() and ModB.Foo(), where only
\* ModC declares Foo: the first is resolved to ModC.Foo, the second is unresolved.
C25_Witness ==
  /\ symbolTable # <<>>
  /\ \A m \in Modules : "Foo" \in symbolTable[1][m] <=> m = "ModC"
  /\ \E p \in Finished :
       /\ p.body = <<Ln("Call", "Foo()"), Ln("Call", "ModB.Foo()")>>
       /\ p.calls = <<[target |-> QName("ModC", "Foo"), resolved |-> TRUE, line |-> p.startLine],
                      [target |-> QName("ModB", "Foo"), resolved |-> FALSE,
                       line |-> p.startLine + 1]>>

QuotesBefore(s, i) == Cardinality({k \in 1..(i - 1) : s[k] = Quote})

\* The string literals of s that are closed and stand before any apostrophe or Rem
\* outside a literal, as pairs of the positions of their quotes.
LiteralsOf(s) ==
  {<<i, j>> \in (1..Len(s)) \X (1..Len(s)) :
     /\ i < j /\ s[i] = Quote /\ s[j] = Quote
     /\ QuotesBefore(s, i) % 2 = 0
     /\ \A k \in (i + 1)..(j - 1) : s[k] # Quote
     /\ \A k \in 1..(i - 1) : s[k] \in {"'", "Rem"} => QuotesBefore(s, k) % 2 = 1}

\* C26: every body line the line loop has stripped still holds, in place, each of
\* its string literals that stands before any comment marker outside a literal, with
\* the apostrophes and the Rem inside it.
C26_LiteralsKept ==
  \A k \in 1..Len(text.code) : \A n \in 1..Len(text.code[k]) :
    \A lit \in LiteralsOf(text.procs[k].body[n]) :
      /\ Len(text.code[k][n]) >= lit[2]
      /\ SubSeq(text.code[k][n], 1, lit[2]) = SubSeq(text.procs[k].body[n], 1, lit[2])

RECURSIVE HeadsOf(_, _)
\* The indices of the raw lines from k on that begin a logical line: the first line
\* and every line whose predecessor does not end in a continuation.
HeadsOf(Lines, k) ==
  IF k > Len(Lines) THEN <<>>
  ELSE (IF k = 1 \/ ContinuationAt(TrimEnd(Lines[k - 1])) = {} THEN <<k>> ELSE <<>>)
         \o HeadsOf(Lines, k + 1)

\* C27: once the raw lines are joined, the k-th logical line stands at the index its
\* head line has in the raw file.
C27_NoRenumbering ==
  text.pc \in {"joined", "parsed"} =>
    /\ Len(text.lines) = Len(HeadsOf(text.raw, 1))
    /\ \A k \in 1..Len(text.lines) : HeadsOf(text.raw, 1)[k] = k

\* C28: in every finished procedure the start node carries the line of the header,
\* and every node made for a body statement (all nodes but the start node and the
\* final end node) a line strictly between the header line and the footer line.
C28_BodyLines ==
  \A p \in Finished :
    /\ StartOf(p).line = p.startLine
    /\ \A n \in 2..(Len(p.nodes) - 1) :
         p.startLine < p.nodes[n].line /\ p.nodes[n].line < p.endLine

\* Line i lies in the line range of one of the procedures found.
InProcedure(i) ==
  \E k \in 1..Len(text.procs) : text.procs[k].startLine <= i /\ i <= text.procs[k].endLine

\* C29: the procedures ParseProcedures returns are in source order with disjoint
\* ranges and startLine < endLine; each runs from a header to the first footer after
\* it and its body is the lines between them, headers among them included; a header
\* outside every procedure has no footer after it.
C29_Segments ==
  text.pc = "parsed" =>
    /\ \A k \in 1..Len(text.procs) :
         /\ text.procs[k].startLine < text.procs[k].endLine
         /\ IsHeader(text.lines[text.procs[k].startLine])
         /\ IsFooter(text.lines[text.procs[k].endLine])
         /\ Len(text.procs[k].body) = text.procs[k].endLine - text.procs[k].startLine - 1
         /\ text.procs[k].body
              = SubSeq(text.lines, text.procs[k].startLine + 1, text.procs[k].endLine - 1)
         /\ \A n \in 1..Len(text.procs[k].body) : ~IsFooter(text.procs[k].body[n])
         /\ \A m \in (k + 1)..Len(text.procs) :
              text.procs[k].endLine < text.procs[m].startLine
    /\ \A i \in 1..Len(text.lines) :
         (IsHeader(text.lines[i]) /\ ~InProcedure(i))
           => \A j \in (i + 1)..Len(text.lines) : ~IsFooter(text.lines[j])

\* C29 witness: two procedures were found, and the body of one holds a header line.
C29_Witness ==
  /\ text.pc = "parsed"
  /\ Len(text.procs) = 2
  /\ \E k \in 1..2 : \E n \in 1..Len(text.procs[k].body) : IsHeader(text.procs[k].body[n])

\* The targets of the unlabelled edges of the document from cond node c to nodes
\* that are no join.
PlainTargets(p, c) ==
  {p.edges[k].to : k \in {j \in 1..Len(p.edges) :
                            /\ p.edges[j].from = p.nodes[c].id /\ p.edges[j].label = ""
                            /\ HasNode(p, p.edges[j].to)
                            /\ TypeIn(p, p.edges[j].to) # "join"}}

LowestOf(p, T) == CHOOSE t \in T : \A u \in T : NodeOf(p, t).line <= NodeOf(p, u).line
HighestOf(p, T) == CHOOSE t \in T : \A u \in T : NodeOf(p, u).line <= NodeOf(p, t).line

DrawnWith(r, from, to, label) ==
  \E i \in 1..Len(r.m.lines) :
    /\ r.m.lines[i].from = DiagIdOf(r.p, from)
    /\ r.m.lines[i].to = DiagIdOf(r.p, to)
    /\ r.m.lines[i].label = label

\* C30: in every diagram written, a cond node with unlabelled edges to two or more
\* nodes that are no join, on different lines, has its edge to the target of the
\* lowest line drawn with "Yes" and its edge to the target of the highest line with
\* "No", the two swapped for an "If Not" condition, whatever the order of the edges
\* in the document.
C30_YesNoByLine ==
  \A r \in Drawn : \A c \in IxsOfType(r.p, "cond") :
    (/\ Cardinality(PlainTargets(r.p, c)) >= 2
     /\ \A t, u \in PlainTargets(r.p, c) : t # u => NodeOf(r.p, t).line # NodeOf(r.p, u).line)
      => /\ DrawnWith(r, r.p.nodes[c].id, LowestOf(r.p, PlainTargets(r.p, c)),
                      IF IsIfNotText(r.p.nodes[c].text) THEN "No" ELSE "Yes")
         /\ DrawnWith(r, r.p.nodes[c].id, HighestOf(r.p, PlainTargets(r.p, c)),
                      IF IsIfNotText(r.p.nodes[c].text) THEN "Yes" ELSE "No")

\* A .bas or .cls file is handed to Import-ModuleToVBProject.
ModuleCall ==
  /\ imp.pc = "files"
  /\ imp.file <= Len(targetFiles)
  /\ targetFiles[imp.file].ext \in {".bas", ".cls"}

\* C31: when Import-ModuleToVBProject returns for a file whose module was in the
\* project before the call, the project still has a component of that name,
\* whatever the function reports.
C31_ModuleKept ==
  [][ModuleCall /\ workbooks[imp.wb].comps[targetFiles[imp.file].base] # 0
       => workbooks'[imp.wb].comps[targetFiles[imp.file].base] # 0]_vars

\* C40: when the workbook loop of the import script is over, every workbook has
\* the AutoSave setting it had before the script switched it off, the workbooks
\* passed over as protected or for a missing directory included.
C40_AutoSaveRestored ==
  imp.pc = "done" =>
    \A k \in 1..Len(workbooks) : workbooks[k].autoSave = booksBefore[k].autoSave

NodeIds(p) == {p.nodes[k].id : k \in NodeIxs(p)}

\* C32: in every finished procedure both ends of every edge are ids of nodes of
\* that procedure.
C32_EdgeEndsAreNodes ==
  \A p \in Finished : \A e \in 1..Len(p.edges) :
     p.edges[e].from \in NodeIds(p) /\ p.edges[e].to \in NodeIds(p)

\* C33: in every finished procedure every node whose type is not `end` has an
\* outgoing edge.
C33_NoDeadEnd ==
  \A p \in Finished : \A k \in NodeIxs(p) :
     p.nodes[k].type # "end" => EdgesOutOf(p, p.nodes[k].id) # {}

\* C34: in every finished procedure a cond node has at most one outgoing edge
\* labelled Yes and at most one labelled No.
C34_OneYesOneNo ==
  \A p \in Finished : \A k \in CondIxs(p) : \A l \in {"Yes", "No"} :
     Cardinality({e \in EdgesOutOf(p, p.nodes[k].id) : p.edges[e].label = l}) <= 1

\* C35: in every finished procedure a switch node has an edge to the join of its
\* End Select only when no case node hangs on that switch.
C35_DirectEdgeOnlyWithoutCase ==
  \A p \in Finished : \A i \in 1..Len(p.selJoins) :
     HasEdge(p, p.selJoins[i].head, p.selJoins[i].join)
       => CasesOf(p, p.selJoins[i].head) = {}

\* C36: in every diagram written from the Builder's document, each edge the Builder
\* labelled "Yes" or "No" is drawn between its two nodes with that label.
C36_LabelsPreserved ==
  \A r \in Rendered : \A e \in 1..Len(r.p.edges) :
     r.p.edges[e].label \in {"Yes", "No"}
       => DrawnWith(r, r.p.edges[e].from, r.p.edges[e].to, r.p.edges[e].label)

Alive == {p \in 1..Len(mcp.procs) : mcp.procs[p].alive}

\* C37: every child process the extension spawned that is alive is the one mcpProc
\* refers to: at most one is alive, none is spawned while another is starting or
\* running, and no exit event of an earlier process clears the reference to it.
C37_OneServer == \A p \in Alive : mcp.mcpProc = p

\* A request tools/call is written to the stdin of a process in this step.
ToolCallWritten(p) ==
  /\ Len(mcp'.procs[p].stdin) = Len(mcp.procs[p].stdin) + 1
  /\ mcp'.procs[p].stdin[Len(mcp'.procs[p].stdin)].method = "tools/call"

\* The initialize request written to process p has been answered.
InitializeAnswered(p) ==
  \E k \in 1..Len(mcp.procs[p].stdin) :
     /\ mcp.procs[p].stdin[k].method = "initialize"
     /\ mcp.settled[mcp.procs[p].stdin[k].id] > 0

\* C38: a tools/call request is written to a server's stdin only after the
\* initialize request startServer sent to that server has been answered.
C38_InitializeFirst ==
  [][\A p \in 1..Len(mcp.procs) : ToolCallWritten(p) => InitializeAnswered(p)]_vars

\* C39: every request rpcSend has put into `pending` is taken out again, by its
\* response or by the end of the server, and none is settled twice.
C39_EverySettles ==
  /\ \A id \in 1..MaxReq : (id \in mcp.pending) ~> (id \notin mcp.pending)
  /\ [](\A id \in 1..Len(mcp.settled) : mcp.settled[id] <= 1)

====
